---- MODULE Spec2Model ----
(***************************************************************************)
(* A state-machine model of rusty_graph's ingestion paths.                 *)
(*                                                                         *)
(* The repository holds two families of source files:                      *)
(*   - add_nodes.rs / get_schema.rs work on DiGraph<Node, Relation>, whose *)
(*     nodes are Node::StandardNode and Node::DataTypeNode;                *)
(*   - maintain_graph.rs works on DirGraph, whose nodes are                *)
(*     NodeData::Regular and NodeData::Schema.                             *)
(* A graph value has exactly one of the two Rust types, so a behaviour of  *)
(* the model fixes the family in Init (variable build) and then only runs  *)
(* the operations of that family.                                          *)
(***************************************************************************)
EXTENDS Integers, Sequences, FiniteSets, TLC

VARIABLES build, graph, last
vars == <<build, graph, last>>

(***************************************************************************)
(* Bounds of the model.                                                    *)
(***************************************************************************)
\* Largest number of rows in one ingested batch.
MaxRows == 2

(***************************************************************************)
(* Generic helpers: Option<T> is a sequence of length 0 (None) or 1        *)
(* (Some), HashMap<K, V> is a function.                                    *)
(***************************************************************************)
None == <<>>
Some(x) == <<x>>
IsSome(o) == Len(o) = 1
Unwrap(o) == o[1]

EmptyMap == [k \in {} |-> ""]
ContainsKey(m, k) == k \in DOMAIN m
\* HashMap::insert / HashMap::extend: the inserted entries win.
Extend(m, new) ==
    [k \in (DOMAIN m) \cup (DOMAIN new) |-> IF k \in DOMAIN new THEN new[k] ELSE m[k]]
MapInsert(m, k, v) == Extend(m, [x \in {k} |-> v])

SeqContains(s, x) == \E i \in 1..Len(s) : s[i] = x
\* Iterator::find over node_indices(): the smallest index satisfying P.
FirstIndex(s, P(_)) ==
    IF \E i \in 1..Len(s) : P(s[i])
    THEN Some(CHOOSE i \in 1..Len(s) : P(s[i]) /\ \A j \in 1..(i - 1) : ~P(s[j]))
    ELSE None
ReplaceAt(s, i, x) == [s EXCEPT ![i] = x]

\* The characters of a string, and str::to_lowercase on ASCII letters.
CharAt(s, i) == SubSeq(s, i, i)
\* The 1-based position of the first occurrence of character ch from
\* position from on, 0 when there is none.
Find(s, ch, from) ==
    IF \E i \in from..Len(s) : CharAt(s, i) = ch
    THEN CHOOSE i \in from..Len(s) :
             CharAt(s, i) = ch /\ \A j \in from..(i - 1) : CharAt(s, j) # ch
    ELSE 0
Contains(s, ch) == Find(s, ch, 1) # 0
UpperCase == "ABCDEFGHIJKLMNOPQRSTUVWXYZ"
LowerCase == "abcdefghijklmnopqrstuvwxyz"
LowerOf == [ch \in {CharAt(UpperCase, i) : i \in 1..Len(UpperCase)} |-> CharAt(LowerCase, Find(UpperCase, ch, 1))]
LowerChar(ch) == IF ch \in DOMAIN LowerOf THEN LowerOf[ch] ELSE ch
RECURSIVE to_lowercase(_)
to_lowercase(s) ==
    IF Len(s) = 0 THEN "" ELSE LowerChar(CharAt(s, 1)) \o to_lowercase(SubSeq(s, 2, Len(s)))
ToLowercase(s) == to_lowercase(s)

(***************************************************************************)
(* Python cells handed to add_nodes.rs: a cell is a Python int, float, str *)
(* or None; s is its text.  The extract::<T>() calls succeed by type.      *)
(***************************************************************************)
PyInt(s) == [py |-> "int", s |-> s]
PyFloat(s) == [py |-> "float", s |-> s]
PyStr(s) == [py |-> "str", s |-> s]
PyNone == [py |-> "none", s |-> ""]

extract_i64(item) == IF item.py = "int" THEN Some(item.s) ELSE None
\* A Python int converts to f64 as well as a float does.
extract_f64(item) == IF item.py \in {"int", "float"} THEN Some(item.s) ELSE None
extract_String(item) == IF item.py = "str" THEN Some(item.s) ELSE None

\* f64 as i32 truncates toward zero.
TruncF64(s) ==
    CASE s = "1.5" -> "1"
      [] s = "2.0" -> "2"
      [] OTHER -> s
\* str::parse::<i32>: an optional sign and digits, nothing else.
ParseI32(s) ==
    CASE s \in {"1", "2", "5", "6"} -> Some(s)
      [] s = "+2" -> Some("2")
      [] OTHER -> None

\* unique ids are i32; the model writes an i32 as its decimal text.
parse_value_to_i32_or_zero(item) ==
    IF IsSome(extract_i64(item)) THEN Some(item.s)
    ELSE IF IsSome(extract_f64(item)) THEN Some(TruncF64(item.s))
    ELSE IF IsSome(extract_String(item)) /\ IsSome(ParseI32(item.s)) THEN ParseI32(item.s)
    ELSE Some("0")
parse_value_to_i32(item) ==
    IF IsSome(extract_i64(item)) THEN Some(item.s)
    ELSE IF IsSome(extract_f64(item)) THEN Some(TruncF64(item.s))
    ELSE IF IsSome(extract_String(item)) THEN ParseI32(item.s)
    ELSE None

(***************************************************************************)
(* AttributeValue (data_types.rs) and the two Node variants.               *)
(***************************************************************************)
AttributeValue(t, s) == [t |-> t, s |-> s]

\* Node::new and Node::new_data_type (crate::schema).
NodeNew(node_type, unique_id, attributes, title) ==
    [kind |-> "StandardNode", node_type |-> node_type, unique_id |-> unique_id,
     attributes |-> IF IsSome(attributes) THEN Unwrap(attributes) ELSE EmptyMap,
     title |-> title]
NodeNewDataType(data_type, name, attributes, calculations) ==
    [kind |-> "DataTypeNode", data_type |-> data_type, name |-> name,
     attributes |-> attributes, calculations |-> calculations]

IsStandardNode(n) == n.kind = "StandardNode"
IsDataTypeNode(n) == n.kind = "DataTypeNode"

(***************************************************************************)
(* get_schema.rs: update_or_retrieve_schema.  Returns the graph and the    *)
(* current declared-type mapping.                                          *)
(***************************************************************************)
update_or_retrieve_schema(g, data_type, name, types) ==
    LET IsIt(n) == IsDataTypeNode(n) /\ n.data_type = data_type /\ n.name = name
        schema_node == FirstIndex(g.nodes, IsIt)
    IN IF IsSome(schema_node)
       THEN LET idx == Unwrap(schema_node)
                curr == g.nodes[idx]
            IN IF IsSome(types)
               THEN LET updated_attrs == Extend(curr.attributes, Unwrap(types))
                    IN [g |-> [g EXCEPT !.nodes = ReplaceAt(g.nodes, idx,
                                   NodeNewDataType(data_type, name, updated_attrs,
                                                   curr.calculations))],
                        schema |-> updated_attrs]
               ELSE [g |-> g, schema |-> curr.attributes]
       ELSE LET attributes == IF IsSome(types) THEN Unwrap(types) ELSE EmptyMap
            IN [g |-> [g EXCEPT !.nodes = Append(g.nodes,
                           NodeNewDataType(data_type, name, attributes, None))],
                schema |-> attributes]

(***************************************************************************)
(* add_nodes.rs: update_or_create_node.  panicked records the panic! of    *)
(* the default match arm; the graph is what it was when the panic struck.  *)
(***************************************************************************)
\* Lines 36-43: the scan for a StandardNode of this type and unique id.
ExistingNodeNever(g, node_type, unique_id) == None
ExistingNodeIndex(g, node_type, unique_id) ==
    LET IsIt(n) == IsStandardNode(n) /\ n.node_type = node_type /\ n.unique_id = unique_id
    IN FirstIndex(g.nodes, IsIt)

\* Lines 51-63: the "update" arm inserts every attribute of the row.
UpdateArmOldWins(old, attributes) ==
    IF IsSome(attributes)
    THEN [old EXCEPT !.attributes = Extend(Unwrap(attributes), old.attributes)]
    ELSE old
UpdateArm(old, attributes) ==
    IF IsSome(attributes)
    THEN [old EXCEPT !.attributes = Extend(old.attributes, Unwrap(attributes))]
    ELSE old

\* A replace arm that removes the old node and adds the new one at the end.
update_or_create_node_reinserting(g, node_type, unique_id, node_title, attributes, conflict_handling) ==
    LET existing_node_index == ExistingNodeIndex(g, node_type, unique_id)
        fresh == NodeNew(node_type, unique_id, attributes, node_title)
    IN IF IsSome(existing_node_index)
       THEN LET node_index == Unwrap(existing_node_index)
                others == SubSeq(g.nodes, 1, node_index - 1)
                              \o SubSeq(g.nodes, node_index + 1, Len(g.nodes))
            IN CASE conflict_handling = "replace" ->
                      [g |-> [g EXCEPT !.nodes = Append(others, fresh)], panicked |-> FALSE]
                 [] conflict_handling = "update" ->
                      [g |-> [g EXCEPT !.nodes = ReplaceAt(g.nodes, node_index,
                                 UpdateArm(g.nodes[node_index], attributes))],
                       panicked |-> FALSE]
                 [] conflict_handling = "skip" -> [g |-> g, panicked |-> FALSE]
                 [] OTHER -> [g |-> g, panicked |-> TRUE]
       ELSE [g |-> [g EXCEPT !.nodes = Append(g.nodes, fresh)], panicked |-> FALSE]

update_or_create_node(g, node_type, unique_id, node_title, attributes, conflict_handling) ==
    LET existing_node_index == ExistingNodeIndex(g, node_type, unique_id)
    IN IF IsSome(existing_node_index)
       THEN LET node_index == Unwrap(existing_node_index)
            IN CASE conflict_handling = "replace" ->
                      [g |-> [g EXCEPT !.nodes = ReplaceAt(g.nodes, node_index,
                                 NodeNew(node_type, unique_id, attributes, node_title))],
                       panicked |-> FALSE]
                 [] conflict_handling = "update" ->
                      [g |-> [g EXCEPT !.nodes = ReplaceAt(g.nodes, node_index,
                                 UpdateArm(g.nodes[node_index], attributes))],
                       panicked |-> FALSE]
                 [] conflict_handling = "skip" -> [g |-> g, panicked |-> FALSE]
                 [] OTHER -> [g |-> g, panicked |-> TRUE]
       ELSE [g |-> [g EXCEPT !.nodes = Append(g.nodes,
                       NodeNew(node_type, unique_id, attributes, node_title))],
             panicked |-> FALSE]

(***************************************************************************)
(* add_nodes.rs: declared type strings and extract_datetime_formats.       *)
(***************************************************************************)
default_datetime_format == "%Y-%m-%d %H:%M:%S"

\* Text is a TLA+ string; CharAt, Find and StartsWith read it character by
\* character as str::chars, str::find and str::starts_with do.
StartsWith(s, prefix) == Len(s) >= Len(prefix) /\ SubSeq(s, 1, Len(prefix)) = prefix

\* data_type.splitn(2, ' '): the head and, if there is a space, the rest.
Splitn2(data_type) ==
    LET sp == Find(data_type, " ", 1)
    IN IF sp = 0 THEN <<data_type>>
       ELSE <<SubSeq(data_type, 1, sp - 1), SubSeq(data_type, sp + 1, Len(data_type))>>
StartsWithDateTime(data_type) == StartsWith(data_type, "DateTime")

\* Returns the side format table and the rewritten column_types_map.
extract_datetime_formats_keeps_suffix(column_types_map, default_format) ==
    [datetime_formats |->
        [c \in {c \in DOMAIN column_types_map : Splitn2(column_types_map[c])[1] = "DateTime"} |->
            IF Len(Splitn2(column_types_map[c])) > 1
            THEN Splitn2(column_types_map[c])[2] ELSE default_format],
     column_types_map |-> column_types_map]
extract_datetime_formats(column_types_map, default_format) ==
    LET dt_cols == {c \in DOMAIN column_types_map :
                       Splitn2(column_types_map[c])[1] = "DateTime"}
    IN [datetime_formats |->
            [c \in dt_cols |->
                IF Len(Splitn2(column_types_map[c])) > 1
                THEN Splitn2(column_types_map[c])[2] ELSE default_format],
        column_types_map |->
            [c \in DOMAIN column_types_map |->
                IF StartsWithDateTime(column_types_map[c])
                THEN "DateTime" ELSE column_types_map[c]]]

\* NaiveDateTime::parse_from_str(text, format) followed by timestamp().
ParseDateTime(text, format) ==
    IF format = default_datetime_format /\ text = "1970-01-02 00:00:00"
    THEN Some("86400") ELSE None

\* Lines 225-263: the cell coerced by the schema's declared type; None when
\* the cell yields no attribute.
CoerceCell(data_type, item, format) ==
    CASE data_type = "Int" ->
            IF IsSome(extract_i64(item)) THEN Some(AttributeValue("Int", item.s))
            ELSE IF IsSome(extract_f64(item))
                 THEN Some(AttributeValue("Int", TruncF64(item.s)))
            ELSE None
      [] data_type = "Float" ->
            IF IsSome(extract_f64(item)) THEN Some(AttributeValue("Float", item.s))
            ELSE None
      [] data_type = "DateTime" ->
            IF IsSome(extract_i64(item)) THEN Some(AttributeValue("DateTime", item.s))
            ELSE IF IsSome(extract_String(item))
                 THEN LET ts == ParseDateTime(item.s, format)
                      IN IF IsSome(ts) THEN Some(AttributeValue("DateTime", Unwrap(ts)))
                         ELSE None
            ELSE None
      [] OTHER ->
            Some(AttributeValue("String",
                 IF IsSome(extract_String(item)) THEN item.s ELSE ""))

\* Lines 143-159: the types inferred from the first row.
InferTypes(c) ==
    IF Len(c.data) = 0 THEN EmptyMap
    ELSE LET first_row == c.data[1]
             idx == {i \in 1..Len(c.columns) : i <= Len(first_row)}
         IN [col \in {c.columns[i] : i \in idx} |->
                LET i == CHOOSE j \in idx : c.columns[j] = col
                    item == first_row[i]
                IN IF IsSome(extract_i64(item)) THEN "Int"
                   ELSE IF IsSome(extract_f64(item)) THEN "Float"
                   ELSE "String"]

(***************************************************************************)
(* add_nodes.rs lines 186-275: one row.  The result is None when the row   *)
(* is skipped and Some([unique_id, node_title, attributes]) otherwise.     *)
(***************************************************************************)
RECURSIVE column_loop(_, _, _, _, _, _)
column_loop(c, schema, formats, row, col_index, acc) ==
    IF col_index > Len(c.columns) THEN Some(acc)
    ELSE IF col_index > Len(row) THEN None
    ELSE LET column_name == c.columns[col_index]
             item == row[col_index]
             next(a) == column_loop(c, schema, formats, row, col_index + 1, a)
         IN IF column_name = c.unique_id_field
            THEN LET uid == parse_value_to_i32(item)
                 IN IF IsSome(uid) THEN next([acc EXCEPT !.unique_id = uid]) ELSE None
            ELSE IF IsSome(c.node_title_field) /\ column_name = Unwrap(c.node_title_field)
            THEN next([acc EXCEPT !.node_title = extract_String(item)])
            ELSE IF IsSome(c.attribute_columns)
                    /\ ~\E k \in 1..Len(Unwrap(c.attribute_columns)) :
                          ToLowercase(Unwrap(c.attribute_columns)[k]) = ToLowercase(column_name)
            THEN next(acc)
            ELSE LET data_type == IF ContainsKey(schema, column_name)
                                  THEN schema[column_name] ELSE "String"
                     format == IF ContainsKey(formats, column_name)
                               THEN formats[column_name] ELSE default_datetime_format
                     attribute_value == CoerceCell(data_type, item, format)
                 IN IF IsSome(attribute_value)
                    THEN next([acc EXCEPT !.attributes =
                                  MapInsert(acc.attributes, column_name, Unwrap(attribute_value))])
                    ELSE next(acc)

ProcessRow(c, schema, formats, row) ==
    LET r == column_loop(c, schema, formats, row, 1,
                 [unique_id |-> None, node_title |-> None, attributes |-> EmptyMap])
    IN IF IsSome(r) /\ IsSome(Unwrap(r).unique_id) THEN r ELSE None

RECURSIVE row_loop(_, _, _, _, _, _)
row_loop(g, c, schema, formats, conflict_handling, i) ==
    IF i > Len(c.data) THEN [g |-> g, res |-> "Ok"]
    ELSE LET r == ProcessRow(c, schema, formats, c.data[i])
         IN IF ~IsSome(r) THEN row_loop(g, c, schema, formats, conflict_handling, i + 1)
            ELSE LET u == update_or_create_node(g, c.node_type, Unwrap(Unwrap(r).unique_id),
                              Unwrap(r).node_title, Some(Unwrap(r).attributes),
                              conflict_handling)
                 IN IF u.panicked THEN [g |-> u.g, res |-> "Panic"]
                    ELSE row_loop(u.g, c, schema, formats, conflict_handling, i + 1)

(***************************************************************************)
(* add_nodes.rs: add_nodes.  c is the call: data, columns, node_type,      *)
(* unique_id_field, node_title_field, conflict_handling, column_types,     *)
(* attribute_columns.  Returns the graph and "Ok", "Err" or "Panic".       *)
(***************************************************************************)
\* A validation that compares the names exactly.
ColumnsValidExact(c) ==
    LET available_columns == {c.columns[i] : i \in 1..Len(c.columns)}
    IN /\ c.unique_id_field \in available_columns
       /\ IsSome(c.node_title_field) => Unwrap(c.node_title_field) \in available_columns
       /\ IsSome(c.attribute_columns) =>
             \A k \in 1..Len(Unwrap(c.attribute_columns)) :
                 Unwrap(c.attribute_columns)[k] \in available_columns
ColumnsValid(c) ==
    LET available_columns == {ToLowercase(c.columns[i]) : i \in 1..Len(c.columns)}
    IN /\ ToLowercase(c.unique_id_field) \in available_columns
       /\ IsSome(c.node_title_field) =>
             ToLowercase(Unwrap(c.node_title_field)) \in available_columns
       /\ IsSome(c.attribute_columns) =>
             \A k \in 1..Len(Unwrap(c.attribute_columns)) :
                 ToLowercase(Unwrap(c.attribute_columns)[k]) \in available_columns

\* Lines 142-177: the column types, the format table and the schema
\* registration that precede the row loop.
AddNodesContext(g, c) ==
    LET column_types_map0 == IF IsSome(c.column_types)
                             THEN Unwrap(c.column_types) ELSE InferTypes(c)
        x == IF DOMAIN column_types_map0 # {}
             THEN extract_datetime_formats(column_types_map0, default_datetime_format)
             ELSE [datetime_formats |-> EmptyMap, column_types_map |-> column_types_map0]
        s == update_or_retrieve_schema(g, "Node", c.node_type, Some(x.column_types_map))
    IN [g |-> s.g, schema |-> s.schema, datetime_formats |-> x.datetime_formats,
        column_types_map |-> x.column_types_map]

add_nodes(g, c) ==
    LET conflict_handling == IF IsSome(c.conflict_handling)
                             THEN Unwrap(c.conflict_handling) ELSE "update"
    IN IF ~ColumnsValid(c) THEN [g |-> g, res |-> "Err"]
       ELSE LET x == AddNodesContext(g, c)
            IN row_loop(x.g, c, x.schema, x.datetime_formats, conflict_handling, 1)

(***************************************************************************)
(* maintain_graph.rs works on DirGraph: Value cells, a DataFrame row       *)
(* source, NodeData::Regular / NodeData::Schema nodes.  A DataFrame df is  *)
(* [columns, types, rows]: the ordered column names, the column-type       *)
(* lookup and the rows of Value cells.                                     *)
(***************************************************************************)
Value(t, s) == [t |-> t, s |-> s]
ValueString(s) == Value("String", s)
ValueNull == Value("Null", "")

verify_column(df, name) == SeqContains(df.columns, name)
get_column_index(df, name) ==
    IF SeqContains(df.columns, name)
    THEN Some(CHOOSE i \in 1..Len(df.columns) : df.columns[i] = name)
    ELSE None
get_value_by_index(df, row_idx, col_idx) ==
    IF row_idx \in 1..Len(df.rows) /\ col_idx \in 1..Len(df.rows[row_idx])
    THEN Some(df.rows[row_idx][col_idx]) ELSE None
get_value(df, row_idx, col_name) ==
    IF IsSome(get_column_index(df, col_name))
    THEN get_value_by_index(df, row_idx, Unwrap(get_column_index(df, col_name)))
    ELSE None

Regular(id, title, node_type, properties) ==
    [kind |-> "Regular", id |-> id, title |-> title, node_type |-> node_type,
     properties |-> properties]
Schema(id, title, properties) ==
    [kind |-> "Schema", id |-> id, title |-> title, node_type |-> "SchemaNode",
     properties |-> properties]
IsRegular(n) == n.kind = "Regular"
IsSchema(n) == n.kind = "Schema"

\* DirGraph::has_node_type.
has_node_type(g, node_type) ==
    \E i \in 1..Len(g.nodes) : IsRegular(g.nodes[i]) /\ g.nodes[i].node_type = node_type

\* TypeLookup::new(graph, node_type) indexes the nodes of one type by
\* unique id and by title; a later node of the same key overwrites the
\* earlier entry.  check_uid / check_title query that snapshot.
LastIndex(s, P(_)) ==
    IF \E i \in 1..Len(s) : P(s[i])
    THEN Some(CHOOSE i \in 1..Len(s) : P(s[i]) /\ \A j \in (i + 1)..Len(s) : ~P(s[j]))
    ELSE None
check_uid(g, node_type, id) ==
    LET IsIt(n) == n.node_type = node_type /\ n.id = id
    IN LastIndex(g.nodes, IsIt)
check_title(g, node_type, title) ==
    LET IsIt(n) == n.node_type = node_type /\ n.title = title
    IN LastIndex(g.nodes, IsIt)

\* BatchProcessor: a Create appends a regular node, an Update writes the
\* row's title and merges the row's properties into the node.
ApplyNodeAction(g, action) ==
    IF action.kind = "Create"
    THEN [g EXCEPT !.nodes = Append(g.nodes,
             Regular(action.id, action.title, action.node_type, action.properties))]
    ELSE LET old == g.nodes[action.node_idx]
         IN IF IsRegular(old)
            THEN [g EXCEPT !.nodes = ReplaceAt(g.nodes, action.node_idx,
                     [old EXCEPT !.title = action.title,
                                 !.properties = Extend(old.properties, action.properties)])]
            ELSE g

get_column_types(df) ==
    [col_name \in {df.columns[i] : i \in 1..Len(df.columns)} |-> df.types[col_name]]

(***************************************************************************)
(* maintain_graph.rs: add_nodes.  c is the call: df, node_type,            *)
(* unique_id_field, node_title_field, conflict_handling (ignored by the    *)
(* code: the parameter is _conflict_handling).                             *)
(***************************************************************************)
\* Lines 37-66: create the type's schema node, or add the columns it lacks.
RegisterNodeSchemaAlwaysNew(g, df, node_type) ==
    [g EXCEPT !.nodes = Append(g.nodes,
        Schema(ValueString(node_type), ValueString(node_type),
               [col \in DOMAIN get_column_types(df) |-> ValueString(get_column_types(df)[col])]))]
RegisterNodeSchema(g, df, node_type) ==
    LET schema_node_idx == check_title(g, "SchemaNode", ValueString(node_type))
        df_schema_properties == [col \in DOMAIN get_column_types(df) |->
                                    ValueString(get_column_types(df)[col])]
    IN IF IsSome(schema_node_idx)
       THEN LET idx == Unwrap(schema_node_idx)
                old == g.nodes[idx]
            IN IF IsSchema(old)
               THEN [g EXCEPT !.nodes = ReplaceAt(g.nodes, idx,
                        [old EXCEPT !.properties =
                            Extend(df_schema_properties, old.properties)])]
               ELSE g
       ELSE [g EXCEPT !.nodes = Append(g.nodes,
                Schema(ValueString(node_type), ValueString(node_type),
                       df_schema_properties))]

\* Lines 94-104: every column but the id and title columns, null if missing.
RowProperties(df, row_idx, unique_id_field, title_field) ==
    LET names == {df.columns[i] : i \in 1..Len(df.columns)}
                    \ {unique_id_field, title_field}
    IN [col_name \in names |->
           IF IsSome(get_value(df, row_idx, col_name))
           THEN Unwrap(get_value(df, row_idx, col_name)) ELSE ValueNull]

\* Lines 78-111.  lookup_g is the graph type_lookup was built from (line 68).
RECURSIVE add_nodes_rows(_, _, _, _, _, _, _)
add_nodes_rows(g, lookup_g, c, title_field, id_idx, title_idx, row_idx) ==
    IF row_idx > Len(c.df.rows) THEN g
    ELSE LET idv == get_value_by_index(c.df, row_idx, id_idx)
             next(h) == add_nodes_rows(h, lookup_g, c, title_field, id_idx, title_idx,
                                       row_idx + 1)
         IN IF ~IsSome(idv) \/ Unwrap(idv) = ValueNull THEN next(g)
            ELSE LET id == Unwrap(idv)
                     tv == get_value_by_index(c.df, row_idx, title_idx)
                     title == IF IsSome(tv) THEN Unwrap(tv) ELSE ValueNull
                     properties == RowProperties(c.df, row_idx, c.unique_id_field, title_field)
                     found == check_uid(lookup_g, c.node_type, id)
                     action == IF IsSome(found)
                               THEN [kind |-> "Update", node_idx |-> Unwrap(found),
                                     title |-> title, properties |-> properties]
                               ELSE [kind |-> "Create", node_type |-> c.node_type,
                                     id |-> id, title |-> title, properties |-> properties]
                 IN next(ApplyNodeAction(g, action))

maintain_graph_add_nodes(g, c) ==
    LET title_field == IF IsSome(c.node_title_field)
                       THEN Unwrap(c.node_title_field) ELSE c.unique_id_field
    IN IF ~verify_column(c.df, c.unique_id_field) THEN [g |-> g, res |-> "Err"]
       ELSE LET g1 == RegisterNodeSchema(g, c.df, c.node_type)
                id_idx == get_column_index(c.df, c.unique_id_field)
                title_idx == get_column_index(c.df, title_field)
            IN IF ~IsSome(id_idx) \/ ~IsSome(title_idx) THEN [g |-> g1, res |-> "Err"]
               ELSE [g |-> add_nodes_rows(g1, g1, c, title_field, Unwrap(id_idx),
                                          Unwrap(title_idx), 1),
                     res |-> "Ok"]

(***************************************************************************)
(* maintain_graph.rs: relation ingestion.                                  *)
(***************************************************************************)
\* Lines 206-238: overwrite a node's title from a configured title column.
SetTitle(g, idx, df, row_idx, title_idx) ==
    IF IsSome(title_idx) /\ IsSome(get_value_by_index(df, row_idx, Unwrap(title_idx)))
       /\ idx \in 1..Len(g.nodes)
    THEN [g EXCEPT !.nodes = ReplaceAt(g.nodes, idx,
             [g.nodes[idx] EXCEPT !.title =
                 Unwrap(get_value_by_index(df, row_idx, Unwrap(title_idx)))])]
    ELSE g
update_node_titles(g, source_idx, target_idx, row_idx, source_title_idx, target_title_idx, df) ==
    SetTitle(SetTitle(g, source_idx, df, row_idx, source_title_idx),
             target_idx, df, row_idx, target_title_idx)

update_schema_node(g, connection_type, source_type, target_type, properties) ==
    IF ~has_node_type(g, source_type) \/ ~has_node_type(g, target_type)
    THEN [g |-> g, res |-> "Err"]
    ELSE LET found == check_title(g, "SchemaNode", ValueString(connection_type))
             ends == [k \in {"source_type", "target_type"} |->
                         IF k = "source_type" THEN ValueString(source_type)
                         ELSE ValueString(target_type)]
             unknown == [prop \in properties |-> ValueString("Unknown")]
         IN IF IsSome(found)
            THEN LET old == g.nodes[Unwrap(found)]
                 IN IF IsSchema(old)
                    THEN [g |-> [g EXCEPT !.nodes = ReplaceAt(g.nodes, Unwrap(found),
                                   [old EXCEPT !.properties =
                                       Extend(Extend(unknown, old.properties), ends)])],
                          res |-> "Ok"]
                    ELSE [g |-> g, res |-> "Err"]
            ELSE [g |-> [g EXCEPT !.nodes = Append(g.nodes,
                            Schema(ValueString(connection_type), ValueString(connection_type),
                                   Extend(unknown, ends)))],
                  res |-> "Ok"]

\* ConnectionBatchProcessor: add_connection refuses an endpoint that is not
\* a node of the graph, otherwise queues the relation; execute adds the
\* queued relations; get_schema_properties is the set of property names seen.
Edge(source_idx, target_idx, connection_type, properties) ==
    [source |-> source_idx, target |-> target_idx, connection_type |-> connection_type,
     properties |-> properties]
add_connection(batch, source_idx, target_idx, properties, g, connection_type) ==
    IF source_idx \in 1..Len(g.nodes) /\ target_idx \in 1..Len(g.nodes)
    THEN [batch |-> Append(batch, Edge(source_idx, target_idx, connection_type, properties)),
          res |-> "Ok"]
    ELSE [batch |-> batch, res |-> "Err"]
get_schema_properties(batch) ==
    UNION {DOMAIN batch[i].properties : i \in 1..Len(batch)}
execute(batch, g) == [g EXCEPT !.edges = g.edges \o batch]

\* Requested property columns with the missing cells left out.
ConnectionPropertiesOmittingMissing(df, row_idx, columns) ==
    IF IsSome(columns)
    THEN [col_name \in {col \in {Unwrap(columns)[k] : k \in 1..Len(Unwrap(columns))} :
                            IsSome(get_value(df, row_idx, col))} |->
             Unwrap(get_value(df, row_idx, col_name))]
    ELSE EmptyMap
\* Lines 179-189: the requested property columns, null when the cell is missing.
ConnectionProperties(df, row_idx, columns) ==
    IF IsSome(columns)
    THEN [col_name \in {Unwrap(columns)[k] : k \in 1..Len(Unwrap(columns))} |->
             IF IsSome(get_value(df, row_idx, col_name))
             THEN Unwrap(get_value(df, row_idx, col_name)) ELSE ValueNull]
    ELSE EmptyMap

\* Lines 151-192.  lookup_g is the graph the CombinedTypeLookup was built from.
RECURSIVE add_connections_rows(_, _, _, _, _)
add_connections_rows(st, lookup_g, c, idx, row_idx) ==
    IF row_idx > Len(c.df.rows) THEN st
    ELSE LET source_id == get_value_by_index(c.df, row_idx, idx.source_id_idx)
             target_id == get_value_by_index(c.df, row_idx, idx.target_id_idx)
             next(s2) == add_connections_rows(s2, lookup_g, c, idx, row_idx + 1)
         IN IF ~IsSome(source_id) \/ Unwrap(source_id) = ValueNull THEN next(st)
            ELSE IF ~IsSome(target_id) \/ Unwrap(target_id) = ValueNull THEN next(st)
            ELSE LET src == check_uid(lookup_g, c.source_type, Unwrap(source_id))
                     tgt == check_uid(lookup_g, c.target_type, Unwrap(target_id))
                 IN IF ~IsSome(src) \/ ~IsSome(tgt) THEN next(st)
                    ELSE LET g1 == update_node_titles(st.g, Unwrap(src), Unwrap(tgt), row_idx,
                                       idx.source_title_idx, idx.target_title_idx, c.df)
                             properties == ConnectionProperties(c.df, row_idx, c.columns)
                             a == add_connection(st.batch, Unwrap(src), Unwrap(tgt),
                                                 properties, g1, c.connection_type)
                         IN IF a.res = "Err" THEN [st EXCEPT !.g = g1, !.res = "Err"]
                            ELSE next([st EXCEPT !.g = g1, !.batch = a.batch])

\* CombinedTypeLookup::new fails when either type has no node in the graph.
CombinedTypeLookupNew(g, source_type, target_type) ==
    IF ~has_node_type(g, source_type) THEN "ErrSource"
    ELSE IF ~has_node_type(g, target_type) THEN "ErrTarget"
    ELSE "Ok"

\* A lookup failure taken for an empty batch.
add_connections_ignoring_lookup_error(g, c) ==
    IF ~verify_column(c.df, c.source_id_field) \/ ~verify_column(c.df, c.target_id_field)
    THEN [g |-> g, res |-> "Err"]
    ELSE LET idx == [source_id_idx |-> Unwrap(get_column_index(c.df, c.source_id_field)),
                     target_id_idx |-> Unwrap(get_column_index(c.df, c.target_id_field)),
                     source_title_idx |->
                         IF IsSome(c.source_title_field)
                         THEN get_column_index(c.df, Unwrap(c.source_title_field)) ELSE None,
                     target_title_idx |->
                         IF IsSome(c.target_title_field)
                         THEN get_column_index(c.df, Unwrap(c.target_title_field)) ELSE None]
         IN IF CombinedTypeLookupNew(g, c.source_type, c.target_type) # "Ok"
            THEN [g |-> g, res |-> "Ok"]
            ELSE LET st == add_connections_rows([g |-> g, batch |-> <<>>, res |-> "Ok"],
                                                g, c, idx, 1)
                 IN IF st.res = "Err" THEN [g |-> st.g, res |-> "Err"]
                    ELSE LET u == update_schema_node(st.g, c.connection_type, c.source_type,
                                      c.target_type, get_schema_properties(st.batch))
                         IN IF u.res = "Err" THEN u
                            ELSE [g |-> execute(st.batch, u.g), res |-> "Ok"]
add_connections(g, c) ==
    IF ~verify_column(c.df, c.source_id_field) \/ ~verify_column(c.df, c.target_id_field)
    THEN [g |-> g, res |-> "Err"]
    ELSE LET idx == [source_id_idx |-> Unwrap(get_column_index(c.df, c.source_id_field)),
                     target_id_idx |-> Unwrap(get_column_index(c.df, c.target_id_field)),
                     source_title_idx |->
                         IF IsSome(c.source_title_field)
                         THEN get_column_index(c.df, Unwrap(c.source_title_field)) ELSE None,
                     target_title_idx |->
                         IF IsSome(c.target_title_field)
                         THEN get_column_index(c.df, Unwrap(c.target_title_field)) ELSE None]
         IN IF CombinedTypeLookupNew(g, c.source_type, c.target_type) # "Ok"
            THEN [g |-> g, res |-> CombinedTypeLookupNew(g, c.source_type, c.target_type)]
            ELSE LET st == add_connections_rows([g |-> g, batch |-> <<>>, res |-> "Ok"],
                                                g, c, idx, 1)
                 IN IF st.res = "Err" THEN [g |-> st.g, res |-> "Err"]
                    ELSE LET u == update_schema_node(st.g, c.connection_type, c.source_type,
                                      c.target_type, get_schema_properties(st.batch))
                         IN IF u.res = "Err" THEN u
                            ELSE [g |-> execute(st.batch, u.g), res |-> "Ok"]

(***************************************************************************)
(* The selection model: a selection is a sequence of levels, a level a     *)
(* sequence of groups [parent, children]; parent is an Option of a node    *)
(* index, children a sequence of node indices.  Level indices are 0-based  *)
(* as in the code.                                                         *)
(***************************************************************************)
get_level_count(selection) == Len(selection)
get_level(selection, index) ==
    IF index + 1 \in 1..Len(selection) THEN Some(selection[index + 1]) ELSE None
saturating_sub(a, b) == IF a >= b THEN a - b ELSE 0

RECURSIVE Dedup(_)
Dedup(s) ==
    IF Len(s) = 0 THEN <<>>
    ELSE LET front == Dedup(SubSeq(s, 1, Len(s) - 1))
         IN IF SeqContains(front, s[Len(s)]) THEN front ELSE Append(front, s[Len(s)])
RECURSIVE Children(_)
Children(level) ==
    IF Len(level) = 0 THEN <<>>
    ELSE Children(SubSeq(level, 1, Len(level) - 1)) \o level[Len(level)].children
get_all_nodes(level) == Dedup(Children(level))
level_is_empty(level) == Len(get_all_nodes(level)) = 0

\* The (parent, child) pairs of the groups that have a parent, in level order.
RECURSIVE ParentChildPairs(_)
ParentChildPairs(level) ==
    IF Len(level) = 0 THEN <<>>
    ELSE LET grp == level[Len(level)]
             front == ParentChildPairs(SubSeq(level, 1, Len(level) - 1))
         IN IF IsSome(grp.parent)
            THEN front \o [k \in 1..Len(grp.children) |->
                              [parent |-> Unwrap(grp.parent), child |-> grp.children[k]]]
            ELSE front

\* DirGraph::get_node(idx) is Some for the indices of the graph.
NodeExists(g, idx) == idx \in 1..Len(g.nodes)
RegularType(g, idx) ==
    IF NodeExists(g, idx) /\ IsRegular(g.nodes[idx]) THEN Some(g.nodes[idx].node_type)
    ELSE None
\* The node type of the first index of s that is a regular node.
RECURSIVE FirstRegularType(_, _)
FirstRegularType(g, s) ==
    IF Len(s) = 0 THEN None
    ELSE IF IsSome(RegularType(g, Head(s))) THEN RegularType(g, Head(s))
    ELSE FirstRegularType(g, Tail(s))

RECURSIVE QueuePairs(_, _, _, _)
QueuePairs(batch, pairs, g, connection_type) ==
    IF Len(pairs) = 0 THEN batch
    ELSE QueuePairs(add_connection(batch, Head(pairs).parent, Head(pairs).child,
                                   EmptyMap, g, connection_type).batch,
                    Tail(pairs), g, connection_type)

(***************************************************************************)
(* maintain_graph.rs: selection_to_new_connections.                        *)
(***************************************************************************)
selection_to_new_connections(g, selection, connection_type) ==
    LET current_level == saturating_sub(get_level_count(selection), 1)
        lv == get_level(selection, current_level)
    IN IF ~IsSome(lv) \/ level_is_empty(Unwrap(lv))
       THEN [g |-> g, res |-> "Ok", created |-> 0]
       ELSE LET level == Unwrap(lv)
                pairs == ParentChildPairs(level)
                parents == [k \in 1..Len(level) |-> level[k].parent]
                with_parent == SelectSeq(parents, IsSome)
                source_type == FirstRegularType(g,
                                   [k \in 1..Len(with_parent) |-> Unwrap(with_parent[k])])
                target_type == FirstRegularType(g,
                                   [k \in 1..Len(pairs) |-> pairs[k].child])
                batch == QueuePairs(<<>>, pairs, g, connection_type)
                u == IF IsSome(source_type) /\ IsSome(target_type)
                     THEN update_schema_node(g, connection_type, Unwrap(source_type),
                              Unwrap(target_type), get_schema_properties(batch))
                     ELSE [g |-> g, res |-> "Ok"]
            IN IF u.res = "Err" THEN [g |-> u.g, res |-> "Err", created |-> 0]
               ELSE [g |-> execute(batch, u.g), res |-> "Ok", created |-> Len(batch)]

(***************************************************************************)
(* Inputs.  Batches hold at most MaxRows rows.                             *)
(***************************************************************************)
SeqsUpTo(S, n) == UNION {[1..k -> S] : k \in 0..n}
Policies == {None, Some("replace"), Some("update"), Some("skip"), Some("merge")}

PyColumns == <<"id", "x">>
PyRows == {<<PyInt("1"), PyInt("5")>>, <<PyInt("1"), PyStr("a")>>,
           <<PyStr("+2"), PyInt("5")>>, <<PyNone, PyStr("a")>>,
           <<PyStr("n/a"), PyInt("5")>>}

PyCall(data, node_type, unique_id_field, node_title_field, conflict_handling, column_types, attribute_columns) ==
    [data |-> data, columns |-> PyColumns, node_type |-> node_type,
     unique_id_field |-> unique_id_field, node_title_field |-> node_title_field,
     conflict_handling |-> conflict_handling, column_types |-> column_types,
     attribute_columns |-> attribute_columns]

\* Calls of add_nodes.rs with valid column names.
PyValidCalls ==
    {PyCall(d, "A", "id", t, p, None, None) :
        d \in SeqsUpTo(PyRows, MaxRows), t \in {None, Some("x")}, p \in Policies}
\* Calls naming a column the row source does not have.
PyInvalidCalls ==
    {PyCall(<<<<PyInt("1"), PyInt("5")>>>>, "A", f[1], f[2], None, None, f[3]) :
        f \in {<<"nope", None, None>>, <<"id", Some("nope"), None>>,
               <<"id", None, Some(<<"x", "nope">>)>>}}
PyCalls == PyValidCalls \cup PyInvalidCalls

VInt(s) == Value("Int64", s)
DataFrame(columns, rows) ==
    [columns |-> columns, rows |-> rows,
     types |-> [col_name \in {columns[i] : i \in 1..Len(columns)} |-> "Int64"]]
DirRowsIdX == {<<VInt("1"), VInt("5")>>, <<VInt("1"), ValueNull>>,
               <<VInt("2"), VInt("5")>>, <<ValueNull, VInt("5")>>}
DirRowsId == {<<VInt("1")>>, <<VInt("2")>>, <<ValueNull>>}
DirFrames ==
    {DataFrame(<<"id", "x">>, d) : d \in SeqsUpTo(DirRowsIdX, MaxRows)}
    \cup {DataFrame(<<"id">>, d) : d \in SeqsUpTo(DirRowsId, MaxRows)}

DirCall(df, node_type, unique_id_field, node_title_field, conflict_handling) ==
    [df |-> df, node_type |-> node_type, unique_id_field |-> unique_id_field,
     node_title_field |-> node_title_field, conflict_handling |-> conflict_handling]
DirValidCalls ==
    {DirCall(df, "A", "id", None, p) : df \in DirFrames, p \in Policies}
DirInvalidCalls ==
    {DirCall(DataFrame(<<"id", "x">>, <<<<VInt("1"), VInt("5")>>>>), "A", f[1], f[2], None) :
        f \in {<<"nope", None>>, <<"id", Some("nope")>>}}
DirCalls == DirValidCalls \cup DirInvalidCalls

(***************************************************************************)
(* The state machine.  The model observes one call of a run: last is       *)
(* [op |-> "none"] until a call is observed, then it holds that call's     *)
(* operation, arguments, the graph before it and its result, and the run   *)
(* ends there.  Every call from every reachable graph can be the observed  *)
(* one.                                                                    *)
(***************************************************************************)
EmptyGraph == [nodes |-> <<>>, edges |-> <<>>]
NoCall == [op |-> "none", args |-> <<>>, pre |-> EmptyGraph, res |-> "Ok"]

Init ==
    /\ build \in {"pyo3", "dirgraph"}
    /\ graph = EmptyGraph
    /\ last = NoCall

Call(op, c, r) ==
    /\ last.op = NoCall.op
    /\ graph' = r.g
    /\ \E observed \in BOOLEAN :
          last' = IF observed THEN [op |-> op, args |-> c, pre |-> graph, res |-> r.res]
                  ELSE last
    /\ UNCHANGED build

PyAddNodes ==
    /\ build = "pyo3"
    /\ \E c \in PyCalls : Call("add_nodes", c, add_nodes(graph, c))

DirAddNodes ==
    /\ build = "dirgraph"
    /\ \E c \in DirCalls : Call("add_nodes", c, maintain_graph_add_nodes(graph, c))

Next == PyAddNodes \/ DirAddNodes

Spec == Init /\ [][Next]_vars

(***************************************************************************)
(* Vocabulary of the properties: one view of both node families.           *)
(***************************************************************************)
IsRegularNode(n) == n.kind \in {"StandardNode", "Regular"}
IsSchemaNode(n) == n.kind \in {"DataTypeNode", "Schema"}
NodeUid(n) == IF n.kind = "StandardNode" THEN n.unique_id ELSE n.id
NodeProps(n) == IF n.kind \in {"StandardNode", "DataTypeNode"} THEN n.attributes
                ELSE n.properties
RegularIndices(g) == {i \in 1..Len(g.nodes) : IsRegularNode(g.nodes[i])}
\* The nodes of g that hold the identity (node_type, uid).
Holders(g, node_type, uid) ==
    {i \in RegularIndices(g) : g.nodes[i].node_type = node_type /\ NodeUid(g.nodes[i]) = uid}

ObservedAddNodes == last.op = "add_nodes"
PolicyOf(c) == IF IsSome(c.conflict_handling) THEN Unwrap(c.conflict_handling) ELSE "update"
IngestNodes(g, c) == IF build = "pyo3" THEN add_nodes(g, c) ELSE maintain_graph_add_nodes(g, c)

\* What each row of call c carries into graph g: None for a row the code
\* skips, else Some([uid, attrs]), the unique id and the attributes the code
\* builds from the row.
RowsOf(c) == IF build = "pyo3" THEN c.data ELSE c.df.rows
Rows(g, c) ==
    IF build = "pyo3"
    THEN LET x == AddNodesContext(g, c)
         IN [k \in 1..Len(c.data) |->
                LET r == ProcessRow(c, x.schema, x.datetime_formats, c.data[k])
                IN IF IsSome(r)
                   THEN Some([uid |-> Unwrap(Unwrap(r).unique_id),
                              attrs |-> Unwrap(r).attributes])
                   ELSE None]
    ELSE LET title_field == IF IsSome(c.node_title_field) THEN Unwrap(c.node_title_field)
                            ELSE c.unique_id_field
         IN [k \in 1..Len(c.df.rows) |->
                LET idv == get_value(c.df, k, c.unique_id_field)
                IN IF IsSome(idv) /\ Unwrap(idv) # ValueNull
                   THEN Some([uid |-> Unwrap(idv),
                              attrs |-> RowProperties(c.df, k, c.unique_id_field, title_field)])
                   ELSE None]
\* The rows that alone in their batch resolve to their unique id.
SoleIn(rows) ==
    {k \in DOMAIN rows :
        /\ IsSome(rows[k])
        /\ \A j \in DOMAIN rows :
              (IsSome(rows[j]) /\ Unwrap(rows[j]).uid = Unwrap(rows[k]).uid) => j = k}
\* The meetings of the observed call: [i, uid, attrs] for a row that is the
\* only one of its unique id in the batch and node i, the only node that
\* held the row's identity before the call.
Meetings ==
    LET rows == Rows(last.pre, last.args)
    IN UNION {LET h == Holders(last.pre, last.args.node_type, Unwrap(rows[k]).uid)
              IN IF Cardinality(h) = 1
                 THEN {[i |-> i, uid |-> Unwrap(rows[k]).uid, attrs |-> Unwrap(rows[k]).attrs] :
                          i \in h}
                 ELSE {} : k \in SoleIn(rows)}

(***************************************************************************)
(* C1.  After any sequence of ingest_nodes calls, under any conflict       *)
(* policy and also when one batch repeats a unique id, no two regular      *)
(* nodes share the same (node type, unique id) pair.                       *)
(***************************************************************************)
C1_UniqueIdentity ==
    \A i, j \in RegularIndices(graph) :
        (graph.nodes[i].node_type = graph.nodes[j].node_type
         /\ NodeUid(graph.nodes[i]) = NodeUid(graph.nodes[j])) => i = j

(***************************************************************************)
(* C2.  Under the update policy, ingesting rows with resolvable unique ids *)
(* a second time leaves every node with the properties it had after the    *)
(* first ingestion and creates no additional node: the graph after the     *)
(* second ingestion is the graph after the first.                          *)
(***************************************************************************)
C2_UpdateIdempotent ==
    (ObservedAddNodes /\ last.res = "Ok" /\ PolicyOf(last.args) = "update")
        => IngestNodes(graph, last.args).g = graph

C2_Witness ==
    /\ ObservedAddNodes /\ last.res = "Ok" /\ PolicyOf(last.args) = "update"
    /\ \E m \in Meetings : graph.nodes[m.i] # last.pre.nodes[m.i]
    /\ Len(graph.nodes) > Len(last.pre.nodes)
    /\ IngestNodes(graph, last.args).res = "Ok"

(***************************************************************************)
(* C3.  Under the update policy, when a row matches an existing (node      *)
(* type, unique id), the node's property mapping afterwards is the old     *)
(* mapping overridden by the row's attributes: every key of the row holds  *)
(* the row's value and every other previously set key keeps its value.     *)
(***************************************************************************)
Overridden(old, row, new) ==
    /\ DOMAIN new = (DOMAIN old) \cup (DOMAIN row)
    /\ \A key \in DOMAIN row : new[key] = row[key]
    /\ \A key \in (DOMAIN old) \ (DOMAIN row) : new[key] = old[key]

C3_UpdateMerges ==
    (ObservedAddNodes /\ last.res = "Ok" /\ PolicyOf(last.args) = "update")
        => \A m \in Meetings :
              Overridden(NodeProps(last.pre.nodes[m.i]), m.attrs, NodeProps(graph.nodes[m.i]))

\* One observed update call in which a row overwrites a differing value
\* and another row leaves a key it does not carry.
C3_Witness ==
    /\ ObservedAddNodes /\ last.res = "Ok" /\ PolicyOf(last.args) = "update"
    /\ \E m \in Meetings :
          \E key \in DOMAIN m.attrs :
              /\ key \in DOMAIN NodeProps(last.pre.nodes[m.i])
              /\ NodeProps(last.pre.nodes[m.i])[key] # m.attrs[key]
              /\ NodeProps(graph.nodes[m.i])[key] = m.attrs[key]
    /\ \E m \in Meetings :
          \E key \in DOMAIN NodeProps(last.pre.nodes[m.i]) :
              /\ key \notin DOMAIN m.attrs
              /\ NodeProps(graph.nodes[m.i])[key] = NodeProps(last.pre.nodes[m.i])[key]

(***************************************************************************)
(* C4.  Under the replace policy, when a row matches an existing (node     *)
(* type, unique id), the node afterwards carries exactly the row's         *)
(* attributes, and it keeps its place: no second node holds the identity.  *)
(***************************************************************************)
C4_ReplaceInstallsRow ==
    (ObservedAddNodes /\ last.res = "Ok" /\ PolicyOf(last.args) = "replace")
        => \A m \in Meetings :
              /\ NodeProps(graph.nodes[m.i]) = m.attrs
              /\ Holders(graph, last.args.node_type, m.uid) = {m.i}

(***************************************************************************)
(* C5.  Under the skip policy, a row whose (node type, unique id) already  *)
(* exists leaves that node completely unchanged: same title, same          *)
(* property keys, same values.                                             *)
(***************************************************************************)
C5_SkipLeavesNode ==
    (ObservedAddNodes /\ last.res = "Ok" /\ PolicyOf(last.args) = "skip")
        => LET rows == Rows(last.pre, last.args)
           IN \A k \in DOMAIN rows :
                 IsSome(rows[k]) =>
                     \A i \in Holders(last.pre, last.args.node_type, Unwrap(rows[k]).uid) :
                         graph.nodes[i] = last.pre.nodes[i]

(***************************************************************************)
(* C6.  A row whose unique-id cell is null or unparseable is skipped       *)
(* without error: the call succeeds, the number of regular nodes after it  *)
(* is what ingesting the batch without those rows gives, and a batch of    *)
(* such rows only leaves every regular node as it was.                     *)
(***************************************************************************)
ValidPolicies == {"replace", "update", "skip"}
\* Row k of call c has a null or unparseable unique-id cell.
IdUnusable(c, k) ==
    IF build = "pyo3"
    THEN LET item == c.data[k][CHOOSE j \in 1..Len(c.columns) :
                                  c.columns[j] = c.unique_id_field]
         IN item.py = "none" \/ (item.py = "str" /\ ~IsSome(ParseI32(item.s)))
    ELSE LET idv == get_value(c.df, k, c.unique_id_field)
         IN ~IsSome(idv) \/ Unwrap(idv) = ValueNull
HasUnusableRow(c) == \E k \in 1..Len(RowsOf(c)) : IdUnusable(c, k)
RECURSIVE KeepRows(_, _, _)
KeepRows(c, rows, k) ==
    IF k > Len(rows) THEN <<>>
    ELSE (IF IdUnusable(c, k) THEN <<>> ELSE <<rows[k]>>) \o KeepRows(c, rows, k + 1)
WithoutUnusableRows(c) ==
    IF build = "pyo3" THEN [c EXCEPT !.data = KeepRows(c, c.data, 1)]
    ELSE [c EXCEPT !.df.rows = KeepRows(c, c.df.rows, 1)]
RegularNodes(g) == [i \in RegularIndices(g) |-> g.nodes[i]]

C6_NullIdRowsSkipped ==
    (ObservedAddNodes /\ last.res # "Err" /\ PolicyOf(last.args) \in ValidPolicies
     /\ HasUnusableRow(last.args))
        => /\ last.res = "Ok"
           /\ Cardinality(RegularIndices(graph)) =
                 Cardinality(RegularIndices(
                     IngestNodes(last.pre, WithoutUnusableRows(last.args)).g))
           /\ (\A k \in 1..Len(RowsOf(last.args)) : IdUnusable(last.args, k))
                 => RegularNodes(graph) = RegularNodes(last.pre)

\* A batch that mixes a row of unusable id with a row that creates a node,
\* ingested into a graph that already holds a regular node.
C6_Witness ==
    /\ ObservedAddNodes /\ last.res = "Ok" /\ PolicyOf(last.args) \in ValidPolicies
    /\ HasUnusableRow(last.args)
    /\ RegularIndices(last.pre) # {}
    /\ Cardinality(RegularIndices(graph)) = Cardinality(RegularIndices(last.pre)) + 1

(***************************************************************************)
(* C7.  When ingest_nodes is called with a unique-id field, a title field  *)
(* or a requested attribute column that the row source does not have, it   *)
(* returns a validation error and the graph is exactly as before the call. *)
(***************************************************************************)
C7_ValidationErrorNoMutation ==
    (ObservedAddNodes /\ last.res = "Err") => graph = last.pre

(***************************************************************************)
(* C8.  An ingest_nodes call whose conflict policy is none of replace,     *)
(* update and skip fails for every input batch, and fails before any       *)
(* mutation.                                                               *)
(***************************************************************************)
C8_InvalidPolicyRejected ==
    (ObservedAddNodes /\ PolicyOf(last.args) \notin ValidPolicies)
        => (last.res \in {"Err", "Panic"} /\ graph = last.pre)

(***************************************************************************)
(* The schema registry under node ingestion, relation ingestion and        *)
(* selection conversion.  Two node types, two relation type names (one of  *)
(* them also a node type name), row sources whose declared column types    *)
(* differ from call to call; relation ingestion always names A as the      *)
(* source type.  Selections hold regular nodes only: they come from        *)
(* filters, which schema nodes never match, and from traversals of         *)
(* relations between regular nodes.  A graph holds at most MaxEdges        *)
(* relations before a call that adds relations.                            *)
(***************************************************************************)
MaxEdges == 1

\* The batches of no row and of one row.
AtMostOne(S) == {<<>>} \cup {<<x>> : x \in S}

NodeTypeNames == {"A", "B"}
ConnectionTypeNames == {"R", "A"}

PySchemaRows == {<<PyInt("1"), PyInt("5")>>}
PySchemaColumnTypes ==
    {None, Some([col \in {"x"} |-> "Float"]),
     Some([col \in {"id", "x"} |-> IF col = "id" THEN "Int" ELSE "DateTime %m/%d/%Y"])}
PySchemaCalls ==
    {PyCall(d, nt, "id", None, None, ct, None) :
        d \in AtMostOne(PySchemaRows), nt \in NodeTypeNames,
        ct \in PySchemaColumnTypes}
    \cup {PyCall(<<>>, "A", "nope", None, None, None, None)}

TypedFrame(columns, types, rows) == [columns |-> columns, rows |-> rows, types |-> types]
DirSchemaFrames ==
    {TypedFrame(<<"id", "x">>, [col \in {"id", "x"} |-> IF col = "id" THEN "Int64" ELSE t], d) :
        t \in {"Int64", "String"}, d \in AtMostOne({<<VInt("1"), VInt("5")>>})}
    \cup {TypedFrame(<<"id">>, [col \in {"id"} |-> "Int64"], d) :
             d \in AtMostOne({<<VInt("1")>>})}
DirSchemaCalls ==
    {DirCall(df, nt, "id", None, None) : df \in DirSchemaFrames, nt \in NodeTypeNames}
    \cup {DirCall(DataFrame(<<"id">>, <<>>), "A", "nope", None, None)}

ConnectionCall(df, connection_type, source_type, source_id_field, target_type, target_id_field, columns) ==
    [df |-> df, connection_type |-> connection_type, source_type |-> source_type,
     source_id_field |-> source_id_field, target_type |-> target_type,
     target_id_field |-> target_id_field, source_title_field |-> None,
     target_title_field |-> None, columns |-> columns]
ConnectionFrames ==
    {DataFrame(<<"s", "t", "w">>, d) :
        d \in AtMostOne({<<VInt("1"), VInt("1"), VInt("7")>>})}
ConnectionCalls ==
    {ConnectionCall(df, ct, st, "s", tt, "t", cols) :
        df \in ConnectionFrames, ct \in ConnectionTypeNames, st \in {"A"},
        tt \in NodeTypeNames, cols \in {Some(<<"w">>)}}
    \cup {ConnectionCall(DataFrame(<<"s", "t", "w">>, <<>>), "R", "A", "nope", "B", "t", None)}

Groups(g) ==
    {[parent |-> p, children |-> ch] :
        p \in {None} \cup {Some(i) : i \in RegularIndices(g)},
        ch \in AtMostOne(RegularIndices(g))}
Selections(g) ==
    {<<>>, <<<<>>, <<>>>>} \cup {<<<<grp>>>> : grp \in Groups(g)}
    \cup {<<<<>>, <<grp>>>> : grp \in Groups(g) \ {x \in Groups(g) : ~IsSome(x.parent)}}

PySchemaAddNodes ==
    /\ build = "pyo3"
    /\ \E c \in PySchemaCalls : Call("add_nodes", c, add_nodes(graph, c))

DirSchemaAddNodes ==
    /\ build = "dirgraph"
    /\ \E c \in DirSchemaCalls : Call("add_nodes", c, maintain_graph_add_nodes(graph, c))

DirAddConnections ==
    /\ build = "dirgraph"
    /\ Len(graph.edges) < MaxEdges
    /\ \E c \in ConnectionCalls : Call("add_connections", c, add_connections(graph, c))

DirSelectionToNewConnections ==
    /\ build = "dirgraph"
    /\ Len(graph.edges) < MaxEdges
    /\ \E selection \in Selections(graph), connection_type \in ConnectionTypeNames :
          Call("selection_to_new_connections",
               [selection |-> selection, connection_type |-> connection_type],
               selection_to_new_connections(graph, selection, connection_type))

NextSchema ==
    \/ PySchemaAddNodes
    \/ DirSchemaAddNodes
    \/ DirAddConnections
    \/ DirSelectionToNewConnections

SpecSchema == Init /\ [][NextSchema]_vars

\* The schema nodes registered under a type name.
SchemaName(n) == IF n.kind = "DataTypeNode" THEN n.name ELSE n.title.s
SchemaHolders(g, name) ==
    {i \in 1..Len(g.nodes) : IsSchemaNode(g.nodes[i]) /\ SchemaName(g.nodes[i]) = name}
\* The types the graph shows as observed: those of its regular nodes and of
\* its relations, and the type the observed call registered.
NodeTypesOf(g) == {g.nodes[i].node_type : i \in RegularIndices(g)}
RelationTypesOf(g) == {g.edges[k].connection_type : k \in 1..Len(g.edges)}
JustObserved ==
    IF last.op = "add_nodes" /\ last.res = "Ok" THEN {last.args.node_type}
    ELSE IF last.op = "add_connections" /\ last.res = "Ok" THEN {last.args.connection_type}
    ELSE {}

(***************************************************************************)
(* C9.  After any sequence of node ingestions, relation ingestions and     *)
(* selection conversions, no type name has two schema nodes, and every     *)
(* node type and relation type that has been observed has exactly one.     *)
(***************************************************************************)
C9_OneSchemaNodePerType ==
    \A name \in NodeTypeNames \cup ConnectionTypeNames :
        /\ Cardinality(SchemaHolders(graph, name)) <= 1
        /\ name \in NodeTypesOf(graph) \cup RelationTypesOf(graph) \cup JustObserved
              => Cardinality(SchemaHolders(graph, name)) = 1

\* A selection conversion adds a relation of a type whose schema node was
\* registered before, between nodes whose types have their schema nodes.
C9_Witness ==
    /\ last.op = "selection_to_new_connections" /\ last.res = "Ok"
    /\ Len(graph.edges) > Len(last.pre.edges)
    /\ last.args.connection_type = "R"
    /\ SchemaHolders(last.pre, "R") # {}
    /\ NodeTypesOf(graph) = NodeTypeNames

(***************************************************************************)
(* C10.  When a schema node already exists for a type, a node ingestion    *)
(* of that type leaves its declared-type mapping as the old mapping        *)
(* overwritten by the newly observed types: new keys added, declared keys  *)
(* take the new type, other keys keep theirs.                              *)
(***************************************************************************)
ObservedTypes(g, c) ==
    IF build = "pyo3" THEN AddNodesContext(g, c).column_types_map
    ELSE [col \in DOMAIN get_column_types(c.df) |-> ValueString(get_column_types(c.df)[col])]

C10_SchemaMergeLastWriteWins ==
    (ObservedAddNodes /\ last.res = "Ok")
        => \A i \in SchemaHolders(last.pre, last.args.node_type) :
              NodeProps(graph.nodes[i]) =
                  Extend(NodeProps(last.pre.nodes[i]), ObservedTypes(last.pre, last.args))

(***************************************************************************)
(* Declared column types of add_nodes.rs: calls that declare the types of  *)
(* the columns x and y, with and without a DateTime format suffix.         *)
(***************************************************************************)
DeclaredTypes ==
    {"Int", "String", "DateTime", "DateTime %m/%d/%Y", "DateTime %Y-%m-%d %H:%M",
     "DateTimeTz %Y"}
DeclaredColumnTypes ==
    UNION {[cols -> DeclaredTypes] : cols \in {{"x"}, {"y"}, {"x", "y"}}}
DateTimeRows == {<<PyInt("1"), PyStr("1970-01-02 00:00:00"), PyInt("5")>>}
DateTimeCall(data, column_types) ==
    [data |-> data, columns |-> <<"id", "x", "y">>, node_type |-> "A",
     unique_id_field |-> "id", node_title_field |-> None, conflict_handling |-> None,
     column_types |-> column_types, attribute_columns |-> None]
DateTimeCalls ==
    {DateTimeCall(d, ct) : d \in AtMostOne(DateTimeRows),
                           ct \in {None} \cup {Some(m) : m \in DeclaredColumnTypes}}

InitDateTime ==
    /\ build = "pyo3"
    /\ graph = EmptyGraph
    /\ last = NoCall

DateTimeAddNodes ==
    /\ build = "pyo3"
    /\ \E c \in DateTimeCalls : Call("add_nodes", c, add_nodes(graph, c))

NextDateTime == DateTimeAddNodes

SpecDateTime == InitDateTime /\ [][NextDateTime]_vars

\* A declared type "DateTime <format>" and its format string.
HasFormatSuffix(data_type) == StartsWith(data_type, "DateTime ")
FormatSuffix(data_type) == SubSeq(data_type, Len("DateTime ") + 1, Len(data_type))
\* The declared-type mapping of node type A in graph g.
DeclaredOf(g) ==
    LET IsIt(n) == IsDataTypeNode(n) /\ n.data_type = "Node" /\ n.name = "A"
    IN g.nodes[Unwrap(FirstIndex(g.nodes, IsIt))].attributes

(***************************************************************************)
(* C11.  A declared type "DateTime <format>" is stored in the schema's     *)
(* declared-type mapping as the bare name DateTime and the format is in    *)
(* the side format table under the same column; a bare DateTime column     *)
(* maps to the default format; no entry of any declared-type mapping       *)
(* retains a format suffix.                                                *)
(***************************************************************************)
C11_DateTimeFormatSplit ==
    /\ \A i \in 1..Len(graph.nodes) :
          IsDataTypeNode(graph.nodes[i]) =>
              \A col \in DOMAIN graph.nodes[i].attributes :
                  ~HasFormatSuffix(graph.nodes[i].attributes[col])
    /\ (ObservedAddNodes /\ last.res = "Ok" /\ IsSome(last.args.column_types))
          => LET declared == Unwrap(last.args.column_types)
                 formats == AddNodesContext(last.pre, last.args).datetime_formats
             IN \A col \in DOMAIN declared :
                   /\ HasFormatSuffix(declared[col]) =>
                         /\ DeclaredOf(graph)[col] = "DateTime"
                         /\ col \in DOMAIN formats
                         /\ formats[col] = FormatSuffix(declared[col])
                   /\ declared[col] = "DateTime" =>
                         /\ DeclaredOf(graph)[col] = "DateTime"
                         /\ col \in DOMAIN formats
                         /\ formats[col] = default_datetime_format

\* One call declares a DateTime column with a format and a bare DateTime
\* column, into a graph whose schema already declared the first column.
C11_Witness ==
    /\ ObservedAddNodes /\ last.res = "Ok" /\ IsSome(last.args.column_types)
    /\ DOMAIN Unwrap(last.args.column_types) = {"x", "y"}
    /\ Unwrap(last.args.column_types)["x"] = "DateTime %m/%d/%Y"
    /\ Unwrap(last.args.column_types)["y"] = "DateTime"
    /\ last.pre.nodes # <<>>
    /\ "x" \in DOMAIN DeclaredOf(last.pre)
    /\ DeclaredOf(last.pre)["x"] = "String"
    /\ DeclaredOf(graph)["x"] = "DateTime"


(***************************************************************************)
(* query_functions.rs: filter_nodes.  Node indices are written 1-based     *)
(* (the code's NodeIndex i is the model's i + 1).  filter_dict maps a key  *)
(* to the Python object given as its value.                                *)
(***************************************************************************)
EndsWith(s, suffix) ==
    Len(s) >= Len(suffix) /\ SubSeq(s, Len(s) - Len(suffix) + 1, Len(s)) = suffix
\* f64::to_string writes a whole number without a fraction.
ToStringF64(s) == IF EndsWith(s, ".0") THEN SubSeq(s, 1, Len(s) - 2) ELSE s
\* Lines 37-42: the stored value converted to text.
AttrToString(attr) == IF attr.t = "Float" THEN ToStringF64(attr.s) ELSE attr.s

MatchesFilterAbsentTitle(node, key, value) ==
    CASE key \in {"type", "node_type"} -> node.node_type = value
      [] key = "title" -> IF IsSome(node.title) THEN Unwrap(node.title) = value ELSE TRUE
      [] key = "unique_id" -> node.unique_id = value
      [] OTHER -> IF ContainsKey(node.attributes, key)
                  THEN AttrToString(node.attributes[key]) = value ELSE FALSE
\* Lines 33-43: one predicate key against a StandardNode.
MatchesFilter(node, key, value) ==
    CASE key \in {"type", "node_type"} -> node.node_type = value
      [] key = "title" -> IF IsSome(node.title) THEN Unwrap(node.title) = value ELSE FALSE
      [] key = "unique_id" -> node.unique_id = value
      [] OTHER -> IF ContainsKey(node.attributes, key)
                  THEN AttrToString(node.attributes[key]) = value ELSE FALSE

node_weight(g, idx) == IF idx \in 1..Len(g.nodes) THEN Some(g.nodes[idx]) ELSE None
node_indices(g) == [i \in 1..Len(g.nodes) |-> i]

filter_nodes(g, indices, filter_dict) ==
    LET nodes_to_check == IF IsSome(indices) THEN Unwrap(indices) ELSE node_indices(g)
        extracted == \A k \in DOMAIN filter_dict : IsSome(extract_String(filter_dict[k]))
        filters == [k \in DOMAIN filter_dict |-> filter_dict[k].s]
        matches(idx) ==
            /\ IsSome(node_weight(g, idx))
            /\ IsStandardNode(g.nodes[idx])
            /\ \A key \in DOMAIN filters : MatchesFilter(g.nodes[idx], key, filters[key])
    IN IF ~extracted THEN [status |-> "Err", value |-> <<>>]
       ELSE [status |-> "Ok", value |-> SelectSeq(nodes_to_check, matches)]

(***************************************************************************)
(* SpecFilter: filter_nodes applied to the graphs that add_nodes.rs builds *)
(* from at most MaxFilterNodes rows of two node types.                     *)
(***************************************************************************)
MaxFilterNodes == 2
MaxPredicates == 2

DistinctIdentities(s) ==
    \A i, j \in 1..Len(s) :
        (s[i].node_type = s[j].node_type /\ s[i].unique_id = s[j].unique_id) => i = j
FilterSchemas ==
    <<NodeNewDataType("Node", "Person", [k \in {"since"} |-> "Int"], EmptyMap),
      NodeNewDataType("Node", "City", [k \in {"since"} |-> "String"], EmptyMap)>>
FilterNodePool ==
    {NodeNew("Person", "1", Some([k \in {"since"} |-> AttributeValue("Int", "1")]), Some("Alice")),
     NodeNew("Person", "2", Some([k \in {"since"} |-> AttributeValue("Float", "1.0")]), None),
     NodeNew("Person", "3", None, Some("Person")),
     NodeNew("City", "1", Some([k \in {"since"} |-> AttributeValue("String", "1")]), Some("Alice"))}
FilterGraphs ==
    {[nodes |-> FilterSchemas \o s, edges |-> <<>>] :
        s \in {t \in SeqsUpTo(FilterNodePool, MaxFilterNodes) : DistinctIdentities(t)}}
FilterKeys == {"type", "node_type", "title", "unique_id", "since"}
FilterValues == {PyStr("Person"), PyStr("Alice"), PyStr("1"), PyInt("1")}
FilterDicts ==
    UNION {[ks -> FilterValues] : ks \in {k \in SUBSET FilterKeys : Cardinality(k) <= MaxPredicates}}
Reverse(s) == [i \in 1..Len(s) |-> s[Len(s) + 1 - i]]
\* The candidate lists: none given, no candidate, every index in reverse
\* order followed by an index that denotes no node, every index twice.
Candidates(g) ==
    {None, Some(<<>>), Some(Reverse(node_indices(g)) \o <<Len(g.nodes) + 1>>),
     Some(node_indices(g) \o node_indices(g))}

InitFilter ==
    /\ build = "pyo3"
    /\ graph \in FilterGraphs
    /\ last = NoCall

FilterNodes ==
    /\ build = "pyo3"
    /\ last.op = NoCall.op
    /\ \E indices \in Candidates(graph), filter_dict \in FilterDicts :
          Call("filter_nodes", [indices |-> indices, filter_dict |-> filter_dict],
               [g |-> graph, res |-> filter_nodes(graph, indices, filter_dict)])

NextFilter == FilterNodes

SpecFilter == InitFilter /\ [][NextFilter]_vars

\* The candidates of the observed filter call, and what the specification
\* says of one candidate: it denotes a regular node and every predicate key
\* equals the node's metadata or the text of its attribute.
CandidatesOf(g, c) == IF IsSome(c.indices) THEN Unwrap(c.indices) ELSE node_indices(g)
PredicateText(c, key) == c.filter_dict[key].s
KeyHolds(n, key, text) ==
    \/ key \in {"type", "node_type"} /\ n.node_type = text
    \/ key = "title" /\ IsSome(n.title) /\ Unwrap(n.title) = text
    \/ key = "unique_id" /\ NodeUid(n) = text
    \/ /\ key \notin {"type", "node_type", "title", "unique_id"}
       /\ key \in DOMAIN NodeProps(n)
       /\ AttrToString(NodeProps(n)[key]) = text
Qualifies(g, c, idx) ==
    /\ idx \in 1..Len(g.nodes)
    /\ IsRegularNode(g.nodes[idx])
    /\ \A key \in DOMAIN c.filter_dict : KeyHolds(g.nodes[idx], key, PredicateText(c, key))
RECURSIVE Qualified(_, _, _)
Qualified(g, c, s) ==
    IF Len(s) = 0 THEN <<>>
    ELSE IF Qualifies(g, c, Head(s)) THEN <<Head(s)>> \o Qualified(g, c, Tail(s))
    ELSE Qualified(g, c, Tail(s))
ObservedFilter == last.op = "filter_nodes" /\ last.res.status = "Ok"

\* C13: a filter call returns exactly the candidates (all nodes when none
\* are given), in candidate order, that denote regular nodes for which
\* every predicate key matches; no schema node is returned, and no node
\* without a title is returned under a title predicate.
C13_FilterExact ==
    ObservedFilter =>
        LET out == last.res.value
        IN /\ out = Qualified(last.pre, last.args, CandidatesOf(last.pre, last.args))
           /\ \A k \in 1..Len(out) :
                 /\ out[k] \in 1..Len(last.pre.nodes)
                 /\ ~IsSchemaNode(last.pre.nodes[out[k]])
                 /\ "title" \in DOMAIN last.args.filter_dict
                       => IsSome(last.pre.nodes[out[k]].title)
C13_Witness ==
    /\ ObservedFilter
    /\ last.args.indices = Some(<<4, 3, 2, 1, 5>>)
    /\ DOMAIN last.args.filter_dict = {"title"}
    /\ Len(last.pre.nodes) = 4
    /\ ~IsSome(last.pre.nodes[3].title)
    /\ last.res.value = <<4>>


(***************************************************************************)
(* data_types.rs: AttributeValue::partial_cmp.  The payload texts are read *)
(* back as the numbers and strings they stand for.  An ordering is "Less", *)
(* "Equal" or "Greater"; partial_cmp is None across variants.              *)
(***************************************************************************)
\* The characters of the model's texts in ASCII order.
Ascii == " %()*+,-./0123456789:ABCDEFGHIJKLMNOPQRSTUVWXYZ_abcdefghijklmnopqrstuvwxyz"
CharCode(ch) == Find(Ascii, ch, 1)
IsDigit(ch) == Len(ch) = 1 /\ Find("0123456789", ch, 1) # 0
DigitValue(ch) == Find("0123456789", ch, 1) - 1
RECURSIVE ParseDigits(_)
ParseDigits(s) ==
    IF Len(s) = 0 THEN 0
    ELSE 10 * ParseDigits(SubSeq(s, 1, Len(s) - 1)) + DigitValue(CharAt(s, Len(s)))
\* The integer a decimal text stands for.
IntOf(s) == IF StartsWith(s, "-") THEN 0 - ParseDigits(SubSeq(s, 2, Len(s))) ELSE ParseDigits(s)
\* The f64 a text with at most one fraction digit stands for, in tenths.
TenthsOf(s) ==
    LET dot == Find(s, ".", 1)
    IN IF dot = 0 THEN 10 * IntOf(s)
       ELSE IF StartsWith(s, "-")
            THEN 10 * IntOf(SubSeq(s, 1, dot - 1)) - DigitValue(CharAt(s, dot + 1))
            ELSE 10 * IntOf(SubSeq(s, 1, dot - 1)) + DigitValue(CharAt(s, dot + 1))
CmpInt(a, b) == IF a < b THEN "Less" ELSE IF a > b THEN "Greater" ELSE "Equal"
\* str::partial_cmp: byte-wise lexicographic.
RECURSIVE CmpStr(_, _)
CmpStr(a, b) ==
    IF Len(a) = 0 /\ Len(b) = 0 THEN "Equal"
    ELSE IF Len(a) = 0 THEN "Less"
    ELSE IF Len(b) = 0 THEN "Greater"
    ELSE IF CharAt(a, 1) = CharAt(b, 1)
         THEN CmpStr(SubSeq(a, 2, Len(a)), SubSeq(b, 2, Len(b)))
    ELSE CmpInt(CharCode(CharAt(a, 1)), CharCode(CharAt(b, 1)))

partial_cmp(a, b) ==
    CASE a.t = "Int" /\ b.t = "Int" -> Some(CmpInt(IntOf(a.s), IntOf(b.s)))
      [] a.t = "Float" /\ b.t = "Float" ->
            IF a.s = "NaN" \/ b.s = "NaN" THEN None
            ELSE Some(CmpInt(TenthsOf(a.s), TenthsOf(b.s)))
      [] a.t = "DateTime" /\ b.t = "DateTime" -> Some(CmpInt(IntOf(a.s), IntOf(b.s)))
      [] a.t = "String" /\ b.t = "String" -> Some(CmpStr(a.s, b.s))
      [] OTHER -> None

(***************************************************************************)
(* query_functions.rs: traverse_relationships.  A relation of the pyo3     *)
(* graph is [source, target, relation_type]; petgraph lists the edges of a *)
(* node newest first.                                                      *)
(***************************************************************************)
Relation(source, target, relation_type) ==
    [source |-> source, target |-> target, relation_type |-> relation_type]
RECURSIVE edges_directed(_, _, _, _)
edges_directed(g, node_idx, incoming, upto) ==
    IF upto = 0 THEN <<>>
    ELSE LET e == g.edges[upto]
             here == IF incoming THEN e.target = node_idx ELSE e.source = node_idx
         IN (IF here THEN <<e>> ELSE <<>>) \o edges_directed(g, node_idx, incoming, upto - 1)

\* Lines 74-85: the (index, sort key) pairs one input node contributes.
ConnectedOf(g, idx, relationship_type, incoming, sort_attribute) ==
    LET es == SelectSeq(edges_directed(g, idx, incoming, Len(g.edges)),
                        LAMBDA e : e.relation_type = relationship_type)
    IN [k \in 1..Len(es) |->
           LET connected_idx == IF incoming THEN es[k].source ELSE es[k].target
               w == node_weight(g, connected_idx)
           IN IF IsSome(sort_attribute) /\ IsSome(w) /\ IsStandardNode(Unwrap(w))
                 /\ ContainsKey(Unwrap(w).attributes, Unwrap(sort_attribute))
              THEN [idx |-> connected_idx,
                    key |-> Some(Unwrap(w).attributes[Unwrap(sort_attribute)])]
              ELSE [idx |-> connected_idx, key |-> None]]
RECURSIVE Connected(_, _, _, _, _)
Connected(g, indices, relationship_type, incoming, sort_attribute) ==
    IF Len(indices) = 0 THEN <<>>
    ELSE ConnectedOf(g, Head(indices), relationship_type, incoming, sort_attribute)
         \o Connected(g, Tail(indices), relationship_type, incoming, sort_attribute)

\* Lines 89-94: the comparator handed to sort_by.
Compare(a, b) ==
    CASE IsSome(a.key) /\ IsSome(b.key) ->
            LET o == partial_cmp(Unwrap(a.key), Unwrap(b.key))
            IN IF IsSome(o) THEN Unwrap(o) ELSE "Equal"
      [] IsSome(a.key) /\ ~IsSome(b.key) -> "Less"
      [] ~IsSome(a.key) /\ IsSome(b.key) -> "Greater"
      [] OTHER -> "Equal"
\* slice::sort_by requires a total order: being "Equal" must be transitive
\* and compatible with "Less".
TotalOrder(s) ==
    \A i, j, k \in 1..Len(s) :
        /\ (Compare(s[i], s[j]) = "Equal" /\ Compare(s[j], s[k]) = "Equal")
              => Compare(s[i], s[k]) = "Equal"
        /\ (Compare(s[i], s[j]) = "Less" /\ Compare(s[j], s[k]) # "Greater")
              => Compare(s[i], s[k]) = "Less"
        /\ (Compare(s[i], s[j]) # "Greater" /\ Compare(s[j], s[k]) = "Less")
              => Compare(s[i], s[k]) = "Less"
Orderings(s) ==
    {[i \in 1..Len(s) |-> s[p[i]]] :
        p \in {q \in [1..Len(s) -> 1..Len(s)] : \A i, j \in 1..Len(s) : q[i] = q[j] => i = j}}
\* The stable insertion of x into the sorted sequence s.
RECURSIVE Insert(_, _)
Insert(s, x) ==
    IF Len(s) = 0 THEN <<x>>
    ELSE IF Compare(x, s[Len(s)]) = "Less"
         THEN Append(Insert(SubSeq(s, 1, Len(s) - 1), x), s[Len(s)])
    ELSE Append(s, x)
RECURSIVE StableSort(_)
StableSort(s) ==
    IF Len(s) = 0 THEN <<>>
    ELSE Insert(StableSort(SubSeq(s, 1, Len(s) - 1)), s[Len(s)])
\* The outcomes of sort_by: the stable sort under a total order, an order
\* the library does not specify otherwise.
sort_by(s) == IF TotalOrder(s) THEN {StableSort(s)} ELSE Orderings(s)

Take(s, n) == SubSeq(s, 1, IF n < Len(s) THEN n ELSE Len(s))
\* The set of results traverse_relationships can return.
traverse_relationships(g, indices, relationship_type, incoming, sort_attribute, ascending, max_relations) ==
    LET connected_nodes == Connected(g, indices, relationship_type, incoming, sort_attribute)
        sorted == IF IsSome(sort_attribute)
                  THEN {IF IsSome(ascending) /\ ~Unwrap(ascending) THEN Reverse(o) ELSE o :
                           o \in sort_by(connected_nodes)}
                  ELSE {connected_nodes}
    IN {LET idxs == [k \in 1..Len(o) |-> o[k].idx]
        IN IF IsSome(max_relations) THEN Take(idxs, Unwrap(max_relations)) ELSE idxs :
           o \in sorted}


(***************************************************************************)
(* SpecTraverse: traverse_relationships applied to graphs of at most       *)
(* MaxTraverseNodes Person nodes and MaxTraverseEdges relations leaving    *)
(* the first of them.                                                      *)
(***************************************************************************)
MaxTraverseNodes == 3
MaxTraverseEdges == 3

TraverseNodePool ==
    {NodeNew("Person", "1", Some([k \in {"since"} |-> AttributeValue("Int", "10")]), None),
     NodeNew("Person", "2", Some([k \in {"since"} |-> AttributeValue("String", "a")]), None),
     NodeNew("Person", "3", Some([k \in {"since"} |-> AttributeValue("Int", "9")]), None),
     NodeNew("Person", "4", None, None)}
TraverseNodes ==
    {<<FilterSchemas[1]>> \o s :
        s \in {t \in SeqsUpTo(TraverseNodePool, MaxTraverseNodes) : DistinctIdentities(t)}}
\* The relations leave node 2, the first Person; only a loop can be "likes".
TraverseEdges(nodes) ==
    SeqsUpTo({Relation(2, t, "knows") : t \in 2..Len(nodes)}
                 \cup (IF Len(nodes) >= 2 THEN {Relation(2, 2, "likes")} ELSE {}),
             MaxTraverseEdges)
TraverseGraphs(nodes) == {[nodes |-> nodes, edges |-> e] : e \in TraverseEdges(nodes)}
TraverseCall(indices, incoming, sort_attribute, ascending, max_relations) == [indices |-> indices, relationship_type |-> "knows", incoming |-> incoming, sort_attribute |-> sort_attribute, ascending |-> ascending, max_relations |-> max_relations]
TraverseCalls ==
    {TraverseCall(i, inc, sa, asc, mr) :
        i \in {<<2>>, <<2, 3>>}, inc \in BOOLEAN, sa \in {None, Some("since")},
        asc \in {None, Some(FALSE)}, mr \in {None, Some(1), Some(2)}}

InitTraverse ==
    /\ build = "pyo3"
    /\ \E nodes \in TraverseNodes : graph \in TraverseGraphs(nodes)
    /\ last = NoCall

TraverseRelationships ==
    /\ build = "pyo3"
    /\ last.op = NoCall.op
    /\ \E c \in TraverseCalls :
         \E out \in traverse_relationships(graph, c.indices, c.relationship_type, c.incoming,
                                           c.sort_attribute, c.ascending, c.max_relations) :
            Call("traverse_relationships", c, [g |-> graph, res |-> out])

NextTraverse == TraverseRelationships

SpecTraverse == InitTraverse /\ [][NextTraverse]_vars

\* The edge matches of the observed traverse call: one entry per followed
\* relation of the requested type, the opposite endpoint.
RECURSIVE MatchesOf(_, _, _)
MatchesOf(g, c, indices) ==
    IF Len(indices) = 0 THEN <<>>
    ELSE LET es == SelectSeq(g.edges,
                     LAMBDA e : /\ e.relation_type = c.relationship_type
                                /\ Head(indices) = IF c.incoming THEN e.target ELSE e.source)
         IN [k \in 1..Len(es) |-> IF c.incoming THEN es[k].source ELSE es[k].target]
            \o MatchesOf(g, c, Tail(indices))
HasAttribute(g, idx, attr) ==
    idx \in 1..Len(g.nodes) /\ IsRegularNode(g.nodes[idx]) /\ attr \in DOMAIN NodeProps(g.nodes[idx])
\* The attribute value of endpoint i is smaller than that of endpoint j:
\* both have the attribute, in the same variant, and i's value is less.
Smaller(g, attr, i, j) ==
    /\ HasAttribute(g, i, attr) /\ HasAttribute(g, j, attr)
    /\ partial_cmp(NodeProps(g.nodes[i])[attr], NodeProps(g.nodes[j])[attr]) = Some("Less")
\* s lists endpoints by nondecreasing attribute, those lacking it last.
Nondecreasing(g, attr, s) ==
    \A i, j \in 1..Len(s) :
        i < j => /\ ~Smaller(g, attr, s[j], s[i])
                 /\ HasAttribute(g, s[j], attr) => HasAttribute(g, s[i], attr)
SameMatches(s, t) ==
    /\ Len(s) = Len(t)
    /\ \A x \in {s[i] : i \in 1..Len(s)} \cup {t[i] : i \in 1..Len(t)} :
          Cardinality({i \in 1..Len(s) : s[i] = x}) = Cardinality({i \in 1..Len(t) : t[i] = x})
ObservedSortedTraverse ==
    /\ last.op = "traverse_relationships"
    /\ IsSome(last.args.sort_attribute)
    /\ ~IsSome(last.args.ascending)
    /\ IsSome(last.args.max_relations)

\* C14: a traverse call with a sort attribute, ascending order and limit k
\* returns the first min(k, m) of its m edge matches listed by nondecreasing
\* attribute value, endpoints lacking the attribute after all that have it.
C14_SortedLimitedTraverse ==
    ObservedSortedTraverse =>
        LET matches == MatchesOf(last.pre, last.args, last.args.indices)
            attr == Unwrap(last.args.sort_attribute)
        IN \E o \in Orderings(matches) :
              /\ Nondecreasing(last.pre, attr, o)
              /\ last.res = Take(o, Unwrap(last.args.max_relations))
\* The failing call of C14: of three matches holding 10, "a" and 9, the
\* call with limit 1 returns the endpoint holding 10.
C14_FailingCall ==
    /\ ObservedSortedTraverse
    /\ last.args.max_relations = Some(1)
    /\ last.args.indices = <<2>>
    /\ ~last.args.incoming
    /\ Len(last.pre.nodes) = 4
    /\ last.pre.edges = <<Relation(2, 4, "knows"), Relation(2, 3, "knows"), Relation(2, 2, "knows")>>
    /\ last.res = <<2>>
    /\ Smaller(last.pre, "since", 4, 2)


(***************************************************************************)
(* calculations.rs: the expression text.  equation_parser (Parser,         *)
(* Evaluator, Expr, AggregateType) is not among the sources; it is         *)
(* modelled from the grammar of the specification:                         *)
(*     expr   ::= term (("+" | "-") term)*                                 *)
(*     term   ::= factor (("*" | "/") factor)*                             *)
(*     factor ::= number | property | name "(" expr ")" | "(" expr ")"     *)
(* An Expr is a record [op, ...]: Number, Variable, Add, Subtract,         *)
(* Multiply, Divide or Aggregate.                                          *)
(***************************************************************************)
RECURSIVE trim_start(_)
trim_start(s) == IF Len(s) > 0 /\ CharAt(s, 1) = " " THEN trim_start(SubSeq(s, 2, Len(s))) ELSE s
RECURSIVE trim_end(_)
trim_end(s) ==
    IF Len(s) > 0 /\ CharAt(s, Len(s)) = " " THEN trim_end(SubSeq(s, 1, Len(s) - 1)) ELSE s
trim(s) == trim_end(trim_start(s))
IsAlphanumeric(ch) == Contains(UpperCase, ch) \/ Contains(LowerCase, ch) \/ IsDigit(ch)
\* s.chars().all(|c| c.is_alphanumeric() || c == '_')
AllWordChars(s) == \A i \in 1..Len(s) : IsAlphanumeric(CharAt(s, i)) \/ CharAt(s, i) = "_"

\* AggregateType::from_string and get_supported_names.
AggregateNames ==
    <<"sum", "avg", "average", "mean", "median", "min", "max", "count",
      "std", "stdev", "stddev", "var", "variance">>
AggregateType_from_string(name) ==
    IF SeqContains(AggregateNames, to_lowercase(name)) THEN Some(to_lowercase(name)) ELSE None
RECURSIVE Join(_, _)
Join(names, sep) ==
    IF Len(names) = 0 THEN ""
    ELSE IF Len(names) = 1 THEN names[1]
    ELSE names[1] \o sep \o Join(Tail(names), sep)
get_supported_names == <<"sum", "avg", "median", "min", "max", "count", "std", "var">>

\* The tokens of a text: words (numbers and names) and single symbols.
WordEnd(s, i) ==
    CHOOSE j \in i..Len(s) :
        /\ \A k \in i..j : IsAlphanumeric(CharAt(s, k)) \/ CharAt(s, k) \in {"_", "."}
        /\ j = Len(s) \/ ~(IsAlphanumeric(CharAt(s, j + 1)) \/ CharAt(s, j + 1) \in {"_", "."})
RECURSIVE Tokens(_, _)
Tokens(s, i) ==
    IF i > Len(s) THEN <<>>
    ELSE IF CharAt(s, i) = " " THEN Tokens(s, i + 1)
    ELSE IF IsAlphanumeric(CharAt(s, i)) \/ CharAt(s, i) = "_"
         THEN <<[k |-> "word", s |-> SubSeq(s, i, WordEnd(s, i))]>> \o Tokens(s, WordEnd(s, i) + 1)
    ELSE <<[k |-> "symbol", s |-> CharAt(s, i)]>> \o Tokens(s, i + 1)
IsNumber(s) == Len(s) > 0 /\ \A i \in 1..Len(s) : IsDigit(CharAt(s, i))
IsSymbol(toks, sym) == Len(toks) > 0 /\ toks[1].k = "symbol" /\ toks[1].s = sym

ParseOk(expr, rest) == [ok |-> TRUE, expr |-> expr, rest |-> rest, err |-> ""]
ParseErr(err) == [ok |-> FALSE, expr |-> <<>>, rest |-> <<>>, err |-> err]
Binary(op, left, right) == [op |-> op, left |-> left, right |-> right]
BinaryOf(sym) ==
    CASE sym = "+" -> "Add" [] sym = "-" -> "Subtract" [] sym = "*" -> "Multiply"
      [] OTHER -> "Divide"

RECURSIVE ParseSum(_)
RECURSIVE ParseSumRest(_, _)
RECURSIVE ParseTerm(_)
RECURSIVE ParseTermRest(_, _)
RECURSIVE ParseFactor(_)
RECURSIVE ParseGroup(_)
\* "(" expr ")" with the opening parenthesis already read.
ParseGroup(toks) ==
    LET inner == ParseSum(toks)
    IN IF ~inner.ok THEN inner
       ELSE IF IsSymbol(inner.rest, ")") THEN ParseOk(inner.expr, Tail(inner.rest))
       ELSE ParseErr("Expected ')'")
ParseFactor(toks) ==
    IF Len(toks) = 0 THEN ParseErr("Unexpected end of expression")
    ELSE IF IsSymbol(toks, "(") THEN ParseGroup(Tail(toks))
    ELSE IF toks[1].k = "symbol" THEN ParseErr("Unexpected '" \o toks[1].s \o "'")
    ELSE IF IsNumber(toks[1].s) THEN ParseOk([op |-> "Number", value |-> toks[1].s], Tail(toks))
    ELSE IF IsSymbol(Tail(toks), "(")
         THEN IF ~IsSome(AggregateType_from_string(toks[1].s))
              THEN ParseErr("Unknown aggregate function '" \o toks[1].s \o "'")
              ELSE LET arg == ParseGroup(Tail(Tail(toks)))
                   IN IF ~arg.ok THEN arg
                      ELSE ParseOk([op |-> "Aggregate",
                                    kind |-> Unwrap(AggregateType_from_string(toks[1].s)),
                                    arg |-> arg.expr], arg.rest)
    ELSE ParseOk([op |-> "Variable", name |-> toks[1].s], Tail(toks))
ParseTermRest(left, toks) ==
    IF IsSymbol(toks, "*") \/ IsSymbol(toks, "/")
    THEN LET right == ParseFactor(Tail(toks))
         IN IF ~right.ok THEN right
            ELSE ParseTermRest(Binary(BinaryOf(toks[1].s), left, right.expr), right.rest)
    ELSE ParseOk(left, toks)
ParseTerm(toks) ==
    LET left == ParseFactor(toks)
    IN IF ~left.ok THEN left ELSE ParseTermRest(left.expr, left.rest)
ParseSumRest(left, toks) ==
    IF IsSymbol(toks, "+") \/ IsSymbol(toks, "-")
    THEN LET right == ParseTerm(Tail(toks))
         IN IF ~right.ok THEN right
            ELSE ParseSumRest(Binary(BinaryOf(toks[1].s), left, right.expr), right.rest)
    ELSE ParseOk(left, toks)
ParseSum(toks) ==
    LET left == ParseTerm(toks)
    IN IF ~left.ok THEN left ELSE ParseSumRest(left.expr, left.rest)
\* Parser::parse_expression: the whole text must be one expression.
parse_expression(expression) ==
    LET r == ParseSum(Tokens(expression, 1))
    IN IF ~r.ok THEN r
       ELSE IF Len(r.rest) > 0 THEN ParseErr("Unexpected '" \o r.rest[1].s \o "'")
       ELSE r

\* Expr::extract_variables: the property names the expression reads.
RECURSIVE extract_variables(_)
extract_variables(expr) ==
    CASE expr.op = "Number" -> {}
      [] expr.op = "Variable" -> {expr.name}
      [] expr.op = "Aggregate" -> extract_variables(expr.arg)
      [] OTHER -> extract_variables(expr.left) \cup extract_variables(expr.right)

(***************************************************************************)
(* calculations.rs: the helpers of process_equation.                       *)
(***************************************************************************)
is_known_aggregate(name) == IsSome(AggregateType_from_string(name))
\* Lines 199-218.  parts[0] is the text before the first "(".
extract_unknown_aggregate_function(expression) ==
    LET lowercase_expr == to_lowercase(expression)
        first == Find(lowercase_expr, "(", 1)
        func_part == trim(SubSeq(lowercase_expr, 1, first - 1))
    IN IF first # 0 /\ ~is_known_aggregate(func_part) /\ AllWordChars(func_part)
       THEN Some(func_part) ELSE None
is_likely_aggregate_name(name) ==
    to_lowercase(trim(name)) \in {"sum", "avg", "average", "mean", "median", "min", "max",
                                  "count", "std", "stdev", "stddev", "var", "variance"}
RECURSIVE has_aggregation(_)
has_aggregation(expr) ==
    CASE expr.op = "Aggregate" -> TRUE
      [] expr.op \in {"Add", "Subtract", "Multiply", "Divide"} ->
            has_aggregation(expr.left) \/ has_aggregation(expr.right)
      [] OTHER -> FALSE


(***************************************************************************)
(* Evaluator::evaluate (equation_parser, modelled from the specification): *)
(* the formula over a sequence of objects.  A property reference reads the *)
(* first object; an aggregate evaluates its argument on every object and   *)
(* reduces the values it obtains.  Numbers are integers in the model.      *)
(***************************************************************************)
RECURSIVE DigitsOf(_)
DigitsOf(n) ==
    IF n < 10 THEN CharAt("0123456789", n + 1)
    ELSE DigitsOf(n \div 10) \o CharAt("0123456789", (n % 10) + 1)
IntToString(n) == IF n < 0 THEN "-" \o DigitsOf(0 - n) ELSE DigitsOf(n)
ValueInt64(n) == Value("Int64", IntToString(n))
IsNumeric(v) == v.t \in {"Int64", "Float64", "UniqueId"}

EvalOk(n) == [ok |-> TRUE, n |-> n, err |-> ""]
EvalErr(err) == [ok |-> FALSE, n |-> 0, err |-> err]
RECURSIVE SumOf(_)
SumOf(ns) == IF Len(ns) = 0 THEN 0 ELSE Head(ns) + SumOf(Tail(ns))
Reduce(kind, ns) ==
    CASE kind = "count" -> EvalOk(Len(ns))
      [] Len(ns) = 0 -> EvalErr("No valid values for aggregate")
      [] kind = "sum" -> EvalOk(SumOf(ns))
      [] kind = "min" -> EvalOk(CHOOSE n \in {ns[i] : i \in 1..Len(ns)} : \A i \in 1..Len(ns) : n <= ns[i])
      [] kind = "max" -> EvalOk(CHOOSE n \in {ns[i] : i \in 1..Len(ns)} : \A i \in 1..Len(ns) : n >= ns[i])
      [] OTHER -> EvalErr("Aggregate not evaluated in this model")
Arithmetic(op, a, b) ==
    CASE op = "Add" -> EvalOk(a + b)
      [] op = "Subtract" -> EvalOk(a - b)
      [] op = "Multiply" -> EvalOk(a * b)
      [] OTHER -> IF b = 0 THEN EvalErr("Division by zero") ELSE EvalOk(a \div b)
RECURSIVE Eval(_, _)
Eval(expr, objects) ==
    CASE expr.op = "Number" -> EvalOk(IntOf(expr.value))
      [] expr.op = "Variable" ->
            IF Len(objects) > 0 /\ ContainsKey(objects[1], expr.name)
               /\ IsNumeric(objects[1][expr.name])
            THEN EvalOk(IntOf(objects[1][expr.name].s))
            ELSE EvalErr("Variable '" \o expr.name \o "' not found")
      [] expr.op = "Aggregate" ->
            LET each == [k \in 1..Len(objects) |-> Eval(expr.arg, <<objects[k]>>)]
                valid == SelectSeq(each, LAMBDA r : r.ok)
            IN Reduce(expr.kind, [k \in 1..Len(valid) |-> valid[k].n])
      [] OTHER ->
            LET l == Eval(expr.left, objects)
                r == Eval(expr.right, objects)
            IN IF ~l.ok THEN l ELSE IF ~r.ok THEN r ELSE Arithmetic(expr.op, l.n, r.n)
Evaluator_evaluate(expr, objects) ==
    LET r == Eval(expr, objects)
    IN IF r.ok THEN [ok |-> TRUE, value |-> ValueInt64(r.n), err |-> ""]
       ELSE [ok |-> FALSE, value |-> ValueNull, err |-> r.err]

(***************************************************************************)
(* calculations.rs: evaluate_equation.  A StatResult is [node_idx,         *)
(* parent_idx, parent_title, value, error_msg].                            *)
(***************************************************************************)
StatResult(node_idx, parent_idx, parent_title, value, error_msg) ==
    [node_idx |-> node_idx, parent_idx |-> parent_idx, parent_title |-> parent_title,
     value |-> value, error_msg |-> error_msg]
get_node(g, idx) == IF NodeExists(g, idx) THEN Some(g.nodes[idx]) ELSE None
\* node.get_field("title").and_then(|v| v.as_string())
title_as_string(node) == IF node.title.t = "String" THEN Some(node.title.s) ELSE None
\* Lines 363-398: numbers and nulls are kept, a text that parses as a
\* number becomes a Float64, any other value is kept.
convert_node_to_object(node) ==
    [key \in DOMAIN node.properties |->
        LET value == node.properties[key]
        IN IF value.t = "String" /\ IsNumber(value.s) THEN Value("Float64", value.s)
           ELSE value]
effective_index(selection, level_index) ==
    IF IsSome(level_index) THEN Unwrap(level_index)
    ELSE saturating_sub(get_level_count(selection), 1)
\* statistics_methods::get_parent_child_pairs: the groups of the effective
\* level in level order, none when the level does not exist.
get_parent_child_pairs(selection, level_index) ==
    LET lv == get_level(selection, effective_index(selection, level_index))
    IN IF IsSome(lv) THEN Unwrap(lv) ELSE <<>>
parent_title_of(g, parent) ==
    IF IsSome(parent) /\ IsSome(get_node(g, Unwrap(parent)))
    THEN title_as_string(Unwrap(get_node(g, Unwrap(parent)))) ELSE None

\* Lines 270-302: the result of one group.
evaluate_pair_skipping_empty(g, parsed_expr, pair) ==
    LET present == SelectSeq(pair.children, LAMBDA node_idx : IsSome(get_node(g, node_idx)))
        objects == [k \in 1..Len(present) |-> convert_node_to_object(g.nodes[present[k]])]
        r == Evaluator_evaluate(parsed_expr, objects)
    IN IF Len(present) = 0 THEN <<>>
       ELSE <<StatResult(None, pair.parent, parent_title_of(g, pair.parent), r.value,
                         IF r.ok THEN None ELSE Some(r.err))>>
evaluate_pair(g, parsed_expr, pair) ==
    LET present == SelectSeq(pair.children, LAMBDA node_idx : IsSome(get_node(g, node_idx)))
        objects == [k \in 1..Len(present) |-> convert_node_to_object(g.nodes[present[k]])]
        r == Evaluator_evaluate(parsed_expr, objects)
    IN IF Len(present) = 0
       THEN <<StatResult(None, pair.parent, parent_title_of(g, pair.parent), ValueNull,
                         Some("No valid nodes found"))>>
       ELSE <<StatResult(None, pair.parent, parent_title_of(g, pair.parent), r.value,
                         IF r.ok THEN None ELSE Some(r.err))>>
\* Lines 320-348: the result of one node.
evaluate_node_dropping_missing(g, parsed_expr, node_idx) ==
    IF IsSome(get_node(g, node_idx))
    THEN LET r == Evaluator_evaluate(parsed_expr, <<convert_node_to_object(g.nodes[node_idx])>>)
         IN <<StatResult(Some(node_idx), None, title_as_string(g.nodes[node_idx]), r.value,
                         IF r.ok THEN None ELSE Some(r.err))>>
    ELSE <<>>
evaluate_node(g, parsed_expr, node_idx) ==
    IF IsSome(get_node(g, node_idx))
    THEN LET r == Evaluator_evaluate(parsed_expr, <<convert_node_to_object(g.nodes[node_idx])>>)
         IN <<StatResult(Some(node_idx), None, title_as_string(g.nodes[node_idx]), r.value,
                         IF r.ok THEN None ELSE Some(r.err))>>
    ELSE <<StatResult(Some(node_idx), None, None, ValueNull, Some("Node not found"))>>
RECURSIVE EvaluatePairs(_, _, _)
EvaluatePairs(g, parsed_expr, pairs) ==
    IF Len(pairs) = 0 THEN <<>>
    ELSE evaluate_pair(g, parsed_expr, Head(pairs)) \o EvaluatePairs(g, parsed_expr, Tail(pairs))
RECURSIVE EvaluateNodes(_, _, _)
EvaluateNodes(g, parsed_expr, nodes) ==
    IF Len(nodes) = 0 THEN <<>>
    ELSE evaluate_node(g, parsed_expr, Head(nodes)) \o EvaluateNodes(g, parsed_expr, Tail(nodes))
evaluate_equation(g, selection, parsed_expr, level_index) ==
    IF has_aggregation(parsed_expr)
    THEN EvaluatePairs(g, parsed_expr, get_parent_child_pairs(selection, level_index))
    ELSE LET level == get_level(selection, effective_index(selection, level_index))
         IN IF ~IsSome(level) THEN <<>>
            ELSE EvaluateNodes(g, parsed_expr, get_all_nodes(Unwrap(level)))


(***************************************************************************)
(* maintain_graph.rs: update_node_properties.  The updates are applied in  *)
(* order; a schema node among the targets ends the call with an error and  *)
(* leaves the earlier updates in place.                                    *)
(***************************************************************************)
\* An update that writes to schema nodes as it does to regular nodes.
RECURSIVE update_node_properties_onto_schema(_, _, _)
update_node_properties_onto_schema(g, nodes, property) ==
    IF Len(nodes) = 0 THEN [g |-> g, res |-> "Ok"]
    ELSE LET node_idx == Head(nodes)[1]
             value == Head(nodes)[2]
         IN IF IsSome(node_idx) /\ IsSome(get_node(g, Unwrap(node_idx)))
            THEN update_node_properties_onto_schema(
                     [g EXCEPT !.nodes[Unwrap(node_idx)].properties =
                                   MapInsert(@, property, value)],
                     Tail(nodes), property)
            ELSE update_node_properties_onto_schema(g, Tail(nodes), property)
\* An update that also enters the property in the schema node of the
\* written node's type.
RECURSIVE update_node_properties_registering(_, _, _)
update_node_properties_registering(g, nodes, property) ==
    IF Len(nodes) = 0 THEN [g |-> g, res |-> "Ok"]
    ELSE LET node_idx == Head(nodes)[1]
             value == Head(nodes)[2]
         IN IF IsSome(node_idx) /\ IsSome(get_node(g, Unwrap(node_idx)))
            THEN IF IsRegular(g.nodes[Unwrap(node_idx)])
                 THEN update_node_properties_registering(
                          [g EXCEPT !.nodes =
                              [i \in DOMAIN g.nodes |->
                                  IF i = Unwrap(node_idx)
                                     \/ i \in SchemaHolders(g, g.nodes[Unwrap(node_idx)].node_type)
                                  THEN [g.nodes[i] EXCEPT !.properties = MapInsert(@, property, value)]
                                  ELSE g.nodes[i]]],
                          Tail(nodes), property)
                 ELSE [g |-> g, res |-> "Err"]
            ELSE update_node_properties_registering(g, Tail(nodes), property)
\* An all-or-nothing update: a schema node anywhere among the targets
\* refuses the whole list before any node is written.
RECURSIVE update_node_properties_atomic(_, _, _)
update_node_properties_atomic(g, nodes, property) ==
    IF \E k \in 1..Len(nodes) :
          /\ IsSome(nodes[k][1]) /\ IsSome(get_node(g, Unwrap(nodes[k][1])))
          /\ ~IsRegular(g.nodes[Unwrap(nodes[k][1])])
    THEN [g |-> g, res |-> "Err"]
    ELSE IF Len(nodes) = 0 THEN [g |-> g, res |-> "Ok"]
    ELSE LET node_idx == Head(nodes)[1]
             value == Head(nodes)[2]
         IN IF IsSome(node_idx) /\ IsSome(get_node(g, Unwrap(node_idx)))
            THEN update_node_properties_atomic(
                     [g EXCEPT !.nodes[Unwrap(node_idx)].properties =
                                   MapInsert(@, property, value)],
                     Tail(nodes), property)
            ELSE update_node_properties_atomic(g, Tail(nodes), property)
\* An update that keeps nothing of a node's other properties.
RECURSIVE update_node_properties_replacing(_, _, _)
update_node_properties_replacing(g, nodes, property) ==
    IF Len(nodes) = 0 THEN [g |-> g, res |-> "Ok"]
    ELSE LET node_idx == Head(nodes)[1]
             value == Head(nodes)[2]
         IN IF IsSome(node_idx) /\ IsSome(get_node(g, Unwrap(node_idx)))
            THEN IF IsRegular(g.nodes[Unwrap(node_idx)])
                 THEN update_node_properties_replacing(
                          [g EXCEPT !.nodes[Unwrap(node_idx)].properties =
                                        [x \in {property} |-> value]],
                          Tail(nodes), property)
                 ELSE [g |-> g, res |-> "Err"]
            ELSE update_node_properties_replacing(g, Tail(nodes), property)
RECURSIVE update_node_properties(_, _, _)
update_node_properties(g, nodes, property) ==
    IF Len(nodes) = 0 THEN [g |-> g, res |-> "Ok"]
    ELSE LET node_idx == Head(nodes)[1]
             value == Head(nodes)[2]
         IN IF IsSome(node_idx) /\ IsSome(get_node(g, Unwrap(node_idx)))
            THEN IF IsRegular(g.nodes[Unwrap(node_idx)])
                 THEN update_node_properties(
                          [g EXCEPT !.nodes[Unwrap(node_idx)].properties =
                                        MapInsert(@, property, value)],
                          Tail(nodes), property)
                 ELSE [g |-> g, res |-> "Err"]
            ELSE update_node_properties(g, Tail(nodes), property)

(***************************************************************************)
(* calculations.rs: process_equation.  The result is [status, msg,         *)
(* results]: status "Err" with its message, "Computed" with the results,   *)
(* or "Stored".                                                            *)
(***************************************************************************)
Err(msg) == [status |-> "Err", msg |-> msg, results |-> <<>>]
Computed(results) == [status |-> "Computed", msg |-> "", results |-> results]
Stored == [status |-> "Stored", msg |-> "", results |-> <<>>]

\* The elements of a set in the order a HashMap or a Vec happens to list them.
RECURSIVE Listed(_)
Listed(S) == IF S = {} THEN <<>> ELSE LET x == CHOOSE x \in S : TRUE IN <<x>> \o Listed(S \ {x})

\* Lines 41-68: the diagnosis of a parse failure.
parse_failure(expression, err) ==
    IF Len(expression) = 0 THEN "Expression cannot be empty."
    ELSE IF Contains(expression, "(") /\ ~Contains(expression, ")")
         THEN "Missing closing parenthesis in expression."
    ELSE IF ~Contains(expression, "(") /\ Contains(expression, ")")
         THEN "Unexpected closing parenthesis in expression."
    ELSE IF ~Contains(expression, "(") /\ is_likely_aggregate_name(expression)
         THEN "Function '" \o expression \o "' requires parentheses. Try '" \o expression
              \o "(property)' instead."
    ELSE "Failed to parse expression: " \o err
         \o ". Check for syntax errors or case sensitivity in function names (use 'sum', not 'SUM')."

\* Lines 92-129: the first offending variable, if the guard applies.
schema_guard_without_reserved(g, level, variables) ==
    LET nodes == get_all_nodes(level)
        first == get_node(g, nodes[1])
        schema_idx == check_title(g, "SchemaNode", ValueString(Unwrap(first).node_type))
        properties == g.nodes[Unwrap(schema_idx)].properties
        offending == {var \in variables : ~ContainsKey(properties, var)}
    IN IF /\ Len(nodes) > 0 /\ IsSome(first) /\ IsRegular(Unwrap(first))
          /\ IsSome(schema_idx) /\ IsSchema(g.nodes[Unwrap(schema_idx)])
          /\ offending # {}
       THEN Some("Property '" \o Listed(offending)[1] \o "' does not exist on '"
                 \o Unwrap(first).node_type \o "' nodes. Available properties: "
                 \o Join(Listed(DOMAIN properties), ", "))
       ELSE None
\* A guard that lets every variable pass.
schema_guard_never(g, level, variables) == None
schema_guard(g, level, variables) ==
    LET nodes == get_all_nodes(level)
        first == get_node(g, nodes[1])
        schema_idx == check_title(g, "SchemaNode", ValueString(Unwrap(first).node_type))
        properties == g.nodes[Unwrap(schema_idx)].properties
        offending == {var \in variables :
                         var \notin {"id", "title", "type"} /\ ~ContainsKey(properties, var)}
    IN IF /\ Len(nodes) > 0 /\ IsSome(first) /\ IsRegular(Unwrap(first))
          /\ IsSome(schema_idx) /\ IsSchema(g.nodes[Unwrap(schema_idx)])
          /\ offending # {}
       THEN Some("Property '" \o Listed(offending)[1] \o "' does not exist on '"
                 \o Unwrap(first).node_type \o "' nodes. Available properties: "
                 \o Join(Listed(DOMAIN properties), ", "))
       ELSE None

\* A target search that keeps the groups without a parent node.
RECURSIVE ParentTargetsKeepingOrphans(_, _)
ParentTargetsKeepingOrphans(g, results) ==
    IF Len(results) = 0 THEN <<>>
    ELSE <<<<Head(results).parent_idx, Head(results).value>>>>
         \o ParentTargetsKeepingOrphans(g, Tail(results))
\* Lines 154-185: the nodes the results are written to.
RECURSIVE ParentTargets(_, _)
ParentTargets(g, results) ==
    IF Len(results) = 0 THEN <<>>
    ELSE (IF IsSome(Head(results).parent_idx)
             /\ IsSome(get_node(g, Unwrap(Head(results).parent_idx)))
          THEN <<<<Head(results).parent_idx, Head(results).value>>>> ELSE <<>>)
         \o ParentTargets(g, Tail(results))
\* result_map keeps the last result of a node index.
RECURSIVE NodeTargets(_, _, _)
NodeTargets(g, results, nodes) ==
    IF Len(nodes) = 0 THEN <<>>
    ELSE LET of_node == SelectSeq(results, LAMBDA r : r.node_idx = Some(Head(nodes)))
         IN (IF Len(of_node) > 0 /\ IsSome(get_node(g, Head(nodes)))
             THEN <<<<Some(Head(nodes)), of_node[Len(of_node)].value>>>> ELSE <<>>)
            \o NodeTargets(g, results, Tail(nodes))

\* Lines 131-195: evaluation and write-back of a parsed expression.
evaluate_and_store(g, selection, parsed_expr, level_index, store_as) ==
    LET is_aggregation == has_aggregation(parsed_expr)
        results == evaluate_equation(g, selection, parsed_expr, level_index)
        effective_level_index == effective_index(selection, level_index)
        level == get_level(selection, effective_level_index)
        nodes_to_update ==
            IF is_aggregation THEN ParentTargets(g, results)
            ELSE IF IsSome(level) THEN NodeTargets(g, results, get_all_nodes(Unwrap(level)))
            ELSE <<>>
        updated == update_node_properties(g, nodes_to_update, Unwrap(store_as))
    IN IF ~IsSome(store_as)
       THEN IF Len(results) = 0
            THEN [g |-> g, res |-> Err("No results from calculation. Check that your selection contains data.")]
            ELSE [g |-> g, res |-> Computed(results)]
       ELSE IF Len(nodes_to_update) = 0
            THEN [g |-> g, res |-> Err("No valid nodes found to store '" \o Unwrap(store_as)
                     \o "'. Selection level: " \o IntToString(effective_level_index)
                     \o ", Aggregation: " \o (IF is_aggregation THEN "true" ELSE "false"))]
       ELSE IF updated.res = "Err"
            THEN [g |-> updated.g, res |-> Err("Cannot update properties on schema nodes")]
       ELSE [g |-> updated.g, res |-> Stored]

\* Lines 32-196, with the outcomes of lines 32 and 42 (the unknown-aggregate
\* scan and Parser::parse_expression) handed in.
process_parsed(g, selection, expression, unknown_func, parsed, level_index, store_as) ==
    LET variables == extract_variables(parsed.expr)
        effective_level_index == effective_index(selection, level_index)
        level == get_level(selection, effective_level_index)
        guard == schema_guard(g, Unwrap(level), variables)
    IN IF IsSome(unknown_func)
       THEN [g |-> g, res |-> Err("Unknown aggregate function '" \o Unwrap(unknown_func)
                \o "'. Supported functions are: " \o Join(get_supported_names, ", "))]
       ELSE IF ~parsed.ok THEN [g |-> g, res |-> Err(parse_failure(expression, parsed.err))]
       ELSE IF get_level_count(selection) = 0
            THEN [g |-> g, res |-> Err("No nodes selected. Please apply filters or traversals before calculating.")]
       ELSE IF ~IsSome(level)
            THEN [g |-> g, res |-> Err("Invalid level index: " \o IntToString(effective_level_index)
                     \o ". Selection only has " \o IntToString(get_level_count(selection))
                     \o " levels.")]
       ELSE IF Len(get_all_nodes(Unwrap(level))) = 0
            THEN [g |-> g, res |-> Err("No nodes found at level " \o IntToString(effective_level_index)
                     \o ". Make sure your filters and traversals return data.")]
       ELSE IF IsSome(guard) THEN [g |-> g, res |-> Err(Unwrap(guard))]
       ELSE evaluate_and_store(g, selection, parsed.expr, level_index, store_as)
process_equation(g, selection, expression, level_index, store_as) ==
    process_parsed(g, selection, expression, extract_unknown_aggregate_function(expression),
                   parse_expression(expression), level_index, store_as)

(***************************************************************************)
(* calculations.rs: the counting operations and store_count_results.       *)
(***************************************************************************)
\* Lines 400-413: Some(count), or None when .expect("Level should exist")
\* panics.
count_nodes_in_level(selection, level_index) ==
    LET level == get_level(selection, effective_index(selection, level_index))
    IN IF IsSome(level) THEN Some(Len(get_all_nodes(Unwrap(level)))) ELSE None
count_nodes_by_parent(g, selection, level_index) ==
    LET pairs == get_parent_child_pairs(selection, level_index)
    IN [k \in 1..Len(pairs) |->
           StatResult(None, pairs[k].parent, parent_title_of(g, pairs[k].parent),
                      ValueInt64(Len(pairs[k].children)), None)]
store_count_results(g, selection, level_index, group_by_parent, target_property) ==
    LET count == count_nodes_in_level(selection, level_index)
        level == get_level(selection, effective_index(selection, level_index))
        present == SelectSeq(get_all_nodes(Unwrap(level)), LAMBDA node_idx : IsSome(get_node(g, node_idx)))
        nodes_to_update ==
            IF group_by_parent THEN ParentTargets(g, count_nodes_by_parent(g, selection, level_index))
            ELSE [k \in 1..Len(present) |-> <<Some(present[k]), ValueInt64(Unwrap(count))>>]
        updated == update_node_properties(g, nodes_to_update, target_property)
    IN IF ~group_by_parent /\ ~IsSome(count) THEN [g |-> g, res |-> "Panic"]
       ELSE IF Len(nodes_to_update) = 0 THEN [g |-> g, res |-> "Err"]
       ELSE updated


(***************************************************************************)
(* SpecEquation: process_equation applied to expression texts of at most   *)
(* MaxExprTokens tokens, and to the example texts, over a graph of two A   *)
(* nodes with properties price and qty.                                    *)
(***************************************************************************)
MaxExprTokens == 3

ExprTokens == {"(", ")", "sum", "foo", "price", "+"}
RECURSIVE Concat(_)
Concat(toks) == IF Len(toks) = 0 THEN "" ELSE Head(toks) \o Concat(Tail(toks))
ExampleExpressions ==
    {"(price + qty) * 2", "2 * (price + qty)", "sum(price", "(price + qty", "sum((price)",
     "price + qty)", "sum(price))", "2 + foo(price)", "sum(price) + foo(qty)", "Foo(price)",
     "SUM(price)", "price + nope", "title", "type + 2", "id + price", "sum(nope)", "sum"}
Expressions == {Concat(toks) : toks \in SeqsUpTo(ExprTokens, MaxExprTokens)} \cup ExampleExpressions

EquationFrame ==
    TypedFrame(<<"id", "price", "qty">>, [col \in {"id", "price", "qty"} |-> "Int64"],
               <<<<VInt("1"), VInt("2"), VInt("3")>>, <<VInt("2"), VInt("4"), VInt("1")>>>>)
EquationGraph == maintain_graph_add_nodes(EmptyGraph, DirCall(EquationFrame, "A", "id", None, None)).g
\* A level of the two A nodes, a level that begins with the schema node, no
\* level at all, and a level of an index that denotes no node.
EquationSelections ==
    {<<<<[parent |-> None, children |-> <<2, 3>>]>>>>,
     <<<<[parent |-> None, children |-> <<1, 2>>]>>>>,
     <<>>,
     <<<<[parent |-> None, children |-> <<4>>]>>>>}

InitEquation ==
    /\ build = "dirgraph"
    /\ graph = EquationGraph
    /\ last = NoCall

ProcessEquation ==
    /\ build = "dirgraph"
    /\ last.op = NoCall.op
    /\ \E expression \in Expressions, selection \in EquationSelections :
          LET r == process_equation(graph, selection, expression, None, None)
          IN Call("process_equation",
                  [selection |-> selection, expression |-> expression, level_index |-> None,
                   store_as |-> None], r)

NextEquation == ProcessEquation

SpecEquation == InitEquation /\ [][NextEquation]_vars

\* Vocabulary: what the text of an expression is, read from the text alone.
ObservedEquation == last.op = "process_equation"
Count(s, ch, upto) == Cardinality({i \in 1..upto : CharAt(s, i) = ch})
\* Some ")" has no "(" before it that it could close.
HasUnopened(s) == \E i \in 1..Len(s) : Count(s, ")", i) > Count(s, "(", i)
\* Some "(" has no ")" after it that could close it.
HasUnclosed(s) ==
    \E i \in 1..Len(s) :
        Count(s, "(", Len(s)) - Count(s, "(", i - 1) > Count(s, ")", Len(s)) - Count(s, ")", i - 1)
ContainsText(s, sub) == \E i \in 1..(Len(s) - Len(sub) + 1) : SubSeq(s, i, i + Len(sub) - 1) = sub
WellFormed(s) == parse_expression(s).ok
\* The rejections of the text itself, before any node is looked at.
TextRejected(res) ==
    /\ res.status = "Err"
    /\ \/ StartsWith(res.msg, "Unknown aggregate function")
       \/ StartsWith(res.msg, "Failed to parse expression")
       \/ StartsWith(res.msg, "Function '")
       \/ res.msg \in {"Expression cannot be empty.", "Missing closing parenthesis in expression.",
                       "Unexpected closing parenthesis in expression."}

\* C15: an expression of the grammar that uses parenthesised grouping and
\* no aggregate is not rejected for its text, and over a level of graph
\* nodes whose schema has its variables it is evaluated once per node.
C15_GroupingAccepted ==
    (/\ ObservedEquation
     /\ WellFormed(last.args.expression)
     /\ Contains(last.args.expression, "(")
     /\ ~has_aggregation(parse_expression(last.args.expression).expr))
    => /\ ~TextRejected(last.res)
       /\ (last.args.selection = <<<<[parent |-> None, children |-> <<2, 3>>]>>>>
           /\ extract_variables(parse_expression(last.args.expression).expr) \subseteq {"price", "qty"})
          => /\ last.res.status = "Computed"
             /\ Len(last.res.results) = 2
\* The failing call of C15: (price + qty) * 2 over the two A nodes.
C15_FailingCall ==
    /\ ObservedEquation
    /\ last.args.expression = "(price + qty) * 2"
    /\ last.args.selection = <<<<[parent |-> None, children |-> <<2, 3>>]>>>>
    /\ last.res.status = "Err"
    /\ last.res.msg = "Unknown aggregate function ''. Supported functions are: sum, avg, median, min, max, count, std, var"


\* C16: an expression with an opening parenthesis that is never closed is
\* rejected with the missing-closing-parenthesis message, and one with a
\* closing parenthesis that was never opened with the
\* unexpected-closing-parenthesis message.
C16_UnbalancedDiagnosed ==
    ObservedEquation =>
        /\ (HasUnclosed(last.args.expression) /\ ~HasUnopened(last.args.expression))
              => /\ last.res.status = "Err"
                 /\ last.res.msg = "Missing closing parenthesis in expression."
        /\ (HasUnopened(last.args.expression) /\ ~HasUnclosed(last.args.expression))
              => /\ last.res.status = "Err"
                 /\ last.res.msg = "Unexpected closing parenthesis in expression."
\* The failing call of C16: sum((price) is reported as a generic failure.
C16_FailingCall ==
    /\ ObservedEquation
    /\ last.args.expression = "sum((price)"
    /\ HasUnclosed(last.args.expression)
    /\ last.res.status = "Err"
    /\ StartsWith(last.res.msg, "Failed to parse expression")

\* The names called in a text: a word that is not a number, followed by "(".
CalledNames(s) ==
    LET toks == Tokens(s, 1)
    IN {toks[i].s : i \in {j \in 1..(Len(toks) - 1) :
                             /\ toks[j].k = "word" /\ ~IsNumber(toks[j].s)
                             /\ toks[j + 1] = [k |-> "symbol", s |-> "("]}}
SupportedName(name) == SeqContains(AggregateNames, to_lowercase(name))
SupportedList == "sum, avg, median, min, max, count, std, var"

\* C17: an expression with balanced parentheses that calls a name which is
\* not a supported aggregate is rejected with "Unknown aggregate function"
\* naming a called unsupported name, followed by the supported list.
C17_UnknownAggregateDiagnosed ==
    (/\ ObservedEquation
     /\ ~HasUnclosed(last.args.expression) /\ ~HasUnopened(last.args.expression)
     /\ \E name \in CalledNames(last.args.expression) : ~SupportedName(name))
    => /\ last.res.status = "Err"
       /\ \E name \in CalledNames(last.args.expression) :
             /\ ~SupportedName(name)
             /\ StartsWith(last.res.msg, "Unknown aggregate function '" \o to_lowercase(name) \o "'")
       /\ ContainsText(last.res.msg, SupportedList)
\* The failing call of C17: the unknown call is not at the start of the text.
C17_FailingCall ==
    /\ ObservedEquation
    /\ last.args.expression = "2 + foo(price)"
    /\ "foo" \in CalledNames(last.args.expression)
    /\ ~StartsWith(last.res.msg, "Unknown aggregate function")


\* The variables a text references: its words that are neither numbers nor
\* called names.
VariablesOf(s) ==
    LET toks == Tokens(s, 1)
    IN {toks[i].s : i \in {j \in 1..Len(toks) :
                             /\ toks[j].k = "word" /\ ~IsNumber(toks[j].s)
                             /\ ~(j < Len(toks) /\ toks[j + 1] = [k |-> "symbol", s |-> "("])}}
\* The first node of the effective level of the observed call, if any.
FirstOfLevel(c) ==
    LET level == get_level(c.selection, effective_index(c.selection, c.level_index))
    IN IF IsSome(level) /\ Len(get_all_nodes(Unwrap(level))) > 0
       THEN Some(get_all_nodes(Unwrap(level))[1]) ELSE None
\* The guard applies: the text was accepted, and the first node of the
\* effective level is a regular node whose type has a schema node.
GuardApplies ==
    /\ ObservedEquation
    /\ ~TextRejected(last.res)
    /\ IsSome(FirstOfLevel(last.args))
    /\ Unwrap(FirstOfLevel(last.args)) \in RegularIndices(last.pre)
    /\ SchemaHolders(last.pre, last.pre.nodes[Unwrap(FirstOfLevel(last.args))].node_type) # {}
Unavailable ==
    LET node_type == last.pre.nodes[Unwrap(FirstOfLevel(last.args))].node_type
    IN {v \in VariablesOf(last.args.expression) :
           /\ v \notin {"id", "title", "type"}
           /\ \A i \in SchemaHolders(last.pre, node_type) : v \notin DOMAIN NodeProps(last.pre.nodes[i])}
SchemaRejected(res) == res.status = "Err" /\ StartsWith(res.msg, "Property '")

MaxGroups == 2

ChildLists == {<<>>, <<2, 3>>, <<4>>, <<3, 4>>, <<1, 3>>}
EvaluateGroups ==
    {[parent |-> p, children |-> ch] : p \in {None, Some(2)}, ch \in ChildLists}
EvaluateLevels == SeqsUpTo(EvaluateGroups, MaxGroups)
\* The level as the last level, as the only level, as an indexed earlier
\* level, and an index beyond the levels.
EvaluateSelections(level) ==
    {[selection |-> <<level>>, level_index |-> None],
     [selection |-> <<<<>>, level>>, level_index |-> None],
     [selection |-> <<level, <<>>>>, level_index |-> Some(0)],
     [selection |-> <<level>>, level_index |-> Some(1)]}
EvaluateExpressions ==
    {"sum(price)", "count(qty) + 2", "sum(nope)", "price * qty", "(price + nope) * 2"}

\* process_equation hands evaluate_equation the parsed expression.
ParsedExpressions == [expression \in EvaluateExpressions |-> parse_expression(expression)]

InitEvaluate ==
    /\ build = "dirgraph"
    /\ graph = EquationGraph
    /\ last = NoCall

EvaluateEquation ==
    /\ build = "dirgraph"
    /\ last.op = NoCall.op
    /\ \E expression \in EvaluateExpressions :
         LET parsed == ParsedExpressions[expression]
         IN /\ parsed.ok
            /\ \E level \in EvaluateLevels :
                 \E s \in EvaluateSelections(level) :
                    LET results == evaluate_equation(graph, s.selection, parsed.expr, s.level_index)
                    IN Call("evaluate_equation",
                            [selection |-> s.selection, expression |-> expression,
                             level_index |-> s.level_index],
                            [g |-> graph, res |-> results])

NextEvaluate == EvaluateEquation

SpecEvaluate == InitEvaluate /\ [][NextEvaluate]_vars

\* Vocabulary: the groups and the nodes of the effective level of a call.
EffectiveLevel(c) ==
    LET index == IF IsSome(c.level_index) THEN Unwrap(c.level_index) ELSE Len(c.selection) - 1
    IN IF index + 1 \in 1..Len(c.selection) THEN c.selection[index + 1] ELSE <<>>
Resolves(g, idx) == idx \in 1..Len(g.nodes)
Resolving(g, children) == {k \in 1..Len(children) : Resolves(g, children[k])}
\* The expressions that call a supported aggregate.
AggregateExpressions ==
    {s \in EvaluateExpressions : \E name \in CalledNames(s) : SupportedName(name)}
\* The number a node holds under a property, if it holds one.
HoldsNumber(g, idx, key) ==
    /\ Resolves(g, idx) /\ key \in DOMAIN NodeProps(g.nodes[idx])
    /\ NodeProps(g.nodes[idx])[key].t = "Int64"
NumberOf(g, idx, key) == IntOf(NodeProps(g.nodes[idx])[key].s)
RECURSIVE PriceSum(_, _)
PriceSum(g, children) ==
    IF Len(children) = 0 THEN 0
    ELSE (IF HoldsNumber(g, Head(children), "price") THEN NumberOf(g, Head(children), "price") ELSE 0)
         + PriceSum(g, Tail(children))
ObservedEvaluate == last.op = "evaluate_equation"

\* C18: for an expression with an aggregate, evaluation returns one result
\* per group of the effective level, in group order, each with the group's
\* parent and no node identity; a group none of whose children resolves to
\* a graph node has a null value and the no-valid-nodes error, and the
\* other groups are evaluated.
C18_OneResultPerGroup ==
    (ObservedEvaluate /\ last.args.expression \in AggregateExpressions) =>
        LET groups == EffectiveLevel(last.args)
            results == last.res
        IN /\ Len(results) = Len(groups)
           /\ \A k \in 1..Len(groups) :
                 /\ results[k].parent_idx = groups[k].parent
                 /\ results[k].node_idx = None
                 /\ Resolving(last.pre, groups[k].children) = {}
                       => /\ results[k].value = ValueNull
                          /\ results[k].error_msg = Some("No valid nodes found")
                 /\ Resolving(last.pre, groups[k].children) # {}
                       => /\ results[k].error_msg # Some("No valid nodes found")
                          /\ (last.args.expression = "sum(price)"
                              /\ \E c \in Resolving(last.pre, groups[k].children) :
                                    HoldsNumber(last.pre, groups[k].children[c], "price"))
                                => /\ results[k].value = ValueInt64(PriceSum(last.pre, groups[k].children))
                                   /\ results[k].error_msg = None
C18_Witness ==
    /\ ObservedEvaluate
    /\ last.args.expression = "sum(price)"
    /\ last.args.level_index = Some(0)
    /\ EffectiveLevel(last.args) = <<[parent |-> None, children |-> <<4>>],
                                     [parent |-> Some(2), children |-> <<2, 3>>]>>
    /\ last.res[1].error_msg = Some("No valid nodes found")
    /\ last.res[2].value = VInt("6")

\* The nodes of a level: the children of its groups in order, each once.
RECURSIVE FirstOccurrences(_)
FirstOccurrences(s) ==
    IF Len(s) = 0 THEN <<>>
    ELSE <<Head(s)>> \o FirstOccurrences(SelectSeq(Tail(s), LAMBDA x : x # Head(s)))
RECURSIVE ChildrenOf(_)
ChildrenOf(groups) ==
    IF Len(groups) = 0 THEN <<>> ELSE Head(groups).children \o ChildrenOf(Tail(groups))

\* C19: for an expression without an aggregate, evaluation returns one
\* result per node of the effective level's deduplicated node set, in node
\* order, each with the node's identity and no parent identity; a node that
\* is missing from the graph or whose evaluation fails has a null value and
\* an error message, and the other nodes are evaluated.
C19_OneResultPerNode ==
    (ObservedEvaluate /\ last.args.expression \notin AggregateExpressions) =>
        LET nodes == FirstOccurrences(ChildrenOf(EffectiveLevel(last.args)))
            results == last.res
        IN /\ Len(results) = Len(nodes)
           /\ \A k \in 1..Len(nodes) :
                 /\ results[k].node_idx = Some(nodes[k])
                 /\ results[k].parent_idx = None
                 /\ ~Resolves(last.pre, nodes[k])
                       => results[k].value = ValueNull /\ IsSome(results[k].error_msg)
                 /\ last.args.expression = "price * qty" =>
                       IF HoldsNumber(last.pre, nodes[k], "price") /\ HoldsNumber(last.pre, nodes[k], "qty")
                       THEN /\ results[k].value = ValueInt64(NumberOf(last.pre, nodes[k], "price")
                                                             * NumberOf(last.pre, nodes[k], "qty"))
                            /\ results[k].error_msg = None
                       ELSE results[k].value = ValueNull /\ IsSome(results[k].error_msg)
                 /\ last.args.expression = "(price + nope) * 2"
                       => results[k].value = ValueNull /\ IsSome(results[k].error_msg)
C19_Witness ==
    /\ ObservedEvaluate
    /\ last.args.expression = "price * qty"
    /\ EffectiveLevel(last.args) = <<[parent |-> None, children |-> <<3, 4>>],
                                     [parent |-> Some(2), children |-> <<2, 3>>]>>
    /\ last.res[1].value = VInt("4")
    /\ last.res[2].error_msg = Some("Node not found")
    /\ last.res[3].value = VInt("6")
    /\ Len(last.res) = 3


(***************************************************************************)
(* SpecLifecycle: sequences of every mutating operation on one graph:      *)
(* add_nodes under each conflict policy (both builds), add_connections,    *)
(* selection_to_new_connections, process_equation with store_as and        *)
(* store_count_results.  A graph holds at most MaxRelations relations      *)
(* before a call that adds relations, so relations are added to graphs     *)
(* that already hold some.                                                 *)
(***************************************************************************)
MaxRelations == 2

LifecyclePyCalls ==
    {PyCall(d, nt, "id", None, p, None, None) :
        d \in AtMostOne({<<PyInt("1"), PyInt("5")>>, <<PyInt("1"), PyInt("6")>>}),
        nt \in NodeTypeNames, p \in Policies}
LifecycleFrames ==
    {TypedFrame(<<"id", "x">>, [col \in {"id", "x"} |-> "Int64"], d) :
        d \in AtMostOne({<<VInt("1"), VInt("5")>>, <<VInt("1"), VInt("6")>>})}
LifecycleDirCalls ==
    {DirCall(df, "A", "id", None, p) : df \in LifecycleFrames, p \in {None, Some("replace")}}
LifecycleConnectionCalls ==
    {ConnectionCall(df, "R", "A", "s", "A", "t", Some(<<"w">>)) : df \in ConnectionFrames}
LifecycleExpressions == {"x + 1", "sum(x)"}

\* One operation applied to the graph; no call is singled out.
Step(r) ==
    /\ graph' = r.g
    /\ UNCHANGED <<build, last>>

LifecyclePyAddNodes ==
    /\ build = "pyo3"
    /\ \E c \in LifecyclePyCalls : Step(add_nodes(graph, c))

LifecycleDirAddNodes ==
    /\ build = "dirgraph"
    /\ \E c \in LifecycleDirCalls : Step(maintain_graph_add_nodes(graph, c))

LifecycleAddConnections ==
    /\ build = "dirgraph"
    /\ Len(graph.edges) < MaxRelations
    /\ \E c \in LifecycleConnectionCalls : Step(add_connections(graph, c))

LifecycleSelectionToNewConnections ==
    /\ build = "dirgraph"
    /\ Len(graph.edges) < MaxRelations
    /\ \E selection \in Selections(graph) :
          Step(selection_to_new_connections(graph, selection, "R"))

LifecycleProcessEquation ==
    /\ build = "dirgraph"
    /\ \E selection \in Selections(graph), expression \in LifecycleExpressions :
          Step(process_equation(graph, selection, expression, None, Some("total")))

LifecycleStoreCountResults ==
    /\ build = "dirgraph"
    /\ \E selection \in Selections(graph), group_by_parent \in BOOLEAN :
          Step(store_count_results(graph, selection, None, group_by_parent, "n"))

NextLifecycle ==
    \/ LifecyclePyAddNodes
    \/ LifecycleDirAddNodes
    \/ LifecycleAddConnections
    \/ LifecycleSelectionToNewConnections
    \/ LifecycleProcessEquation
    \/ LifecycleStoreCountResults

SpecLifecycle == Init /\ [][NextLifecycle]_vars

\* What makes a node the node it is: its variant, its type and its id (the
\* name, for a schema node of the pyo3 build).
IdentityOf(n) ==
    CASE n.kind = "StandardNode" -> <<n.kind, n.node_type, n.unique_id>>
      [] n.kind = "DataTypeNode" -> <<n.kind, n.data_type, n.name>>
      [] OTHER -> <<n.kind, n.node_type, n.id>>
Identities(g) == {IdentityOf(g.nodes[i]) : i \in 1..Len(g.nodes)}
RelationsOf(g) ==
    {<<g.edges[j].source, g.edges[j].target, g.edges[j].connection_type>> : j \in 1..Len(g.edges)}
NothingDeleted ==
    /\ Identities(graph) \subseteq Identities(graph')
    /\ RelationsOf(graph) \subseteq RelationsOf(graph')
    /\ Len(graph.nodes) <= Len(graph'.nodes)
    /\ Len(graph.edges) <= Len(graph'.edges)
    /\ \A i \in 1..Len(graph.nodes) : IdentityOf(graph'.nodes[i]) = IdentityOf(graph.nodes[i])

\* C12: no operation deletes a node or a relation: over every step of every
\* sequence of add_nodes (any policy), add_connections, selection
\* conversion, calculation write-back and count write-back, the node
\* identities and the relations of the graph before the step are still
\* there after it, and every node keeps its identity at its index.
C12_NothingDeleted == [][NothingDeleted]_vars

\* A graph that has been through relation ingestion after node ingestion,
\* a calculation write-back and a count write-back: two relations, and a
\* regular node holding both written properties.
C12_Witness ==
    /\ build = "dirgraph"
    /\ Len(graph.edges) >= 2
    /\ \E i \in 1..Len(graph.nodes) :
          /\ IsRegular(graph.nodes[i])
          /\ {"total", "n"} \subseteq DOMAIN graph.nodes[i].properties


(***************************************************************************)
(* SpecCase: add_nodes of add_nodes.rs with column names and field names   *)
(* that differ in letter case, over batches of at most MaxCaseRows rows.   *)
(***************************************************************************)
MaxCaseRows == 2

CaseColumns == {<<"id", "x">>, <<"ID", "x">>}
CaseFields == {"id", "ID", "Id"}
CaseTitleFields == {None, Some("x"), Some("X")}
CaseRows == {<<PyInt("1"), PyStr("a")>>, <<PyInt("2"), PyStr("b")>>}
CaseCalls ==
    {[PyCall(d, "A", f, t, None, None, None) EXCEPT !.columns = cols] :
        d \in SeqsUpTo(CaseRows, MaxCaseRows), f \in CaseFields, t \in CaseTitleFields,
        cols \in CaseColumns}

CaseAddNodes ==
    /\ build = "pyo3"
    /\ last.op = NoCall.op
    /\ \E c \in CaseCalls : Call("add_nodes", c, add_nodes(graph, c))

InitCase ==
    /\ build = "pyo3"
    /\ graph = EmptyGraph
    /\ last = NoCall

NextCase == CaseAddNodes

SpecCase == InitCase /\ [][NextCase]_vars

\* Two names that differ at most in letter case.
SameUpToCase(a, b) == to_lowercase(a) = to_lowercase(b)
NamesColumn(c, field) == \E i \in 1..Len(c.columns) : SameUpToCase(c.columns[i], field)
\* The unique-id field names a column only up to letter case.
CaseOnlyUniqueId(c) ==
    /\ NamesColumn(c, c.unique_id_field)
    /\ \A i \in 1..Len(c.columns) : c.columns[i] # c.unique_id_field
ObservedCaseOnly ==
    /\ last.op = "add_nodes"
    /\ build = "pyo3"
    /\ CaseOnlyUniqueId(last.args)
    /\ IsSome(last.args.node_title_field) => NamesColumn(last.args, Unwrap(last.args.node_title_field))
StandardNodes(g) == {n \in {g.nodes[i] : i \in 1..Len(g.nodes)} : IsStandardNode(n)}

\* C30: validation is case-insensitive but the per-row match of the
\* unique-id column is exact: a call of add_nodes (add_nodes.rs) whose
\* unique-id field equals a column name only up to letter case returns
\* success, every row is skipped, so the regular nodes are those the graph
\* had before, and the schema node of the type is there.
C30_CaseOnlyIdSkipsRows ==
    ObservedCaseOnly =>
        /\ last.res = "Ok"
        /\ StandardNodes(graph) = StandardNodes(last.pre)
        /\ Len(graph.nodes) <= Len(last.pre.nodes) + 1
        /\ \E i \in 1..Len(graph.nodes) :
              IsDataTypeNode(graph.nodes[i]) /\ graph.nodes[i].name = last.args.node_type

\* A call with two usable rows whose unique-id field "Id" names column "ID"
\* only up to case, on a graph that already holds node (A, 1).
C30_Witness ==
    /\ ObservedCaseOnly
    /\ Len(last.args.data) = 2
    /\ last.args.unique_id_field = "Id"
    /\ last.args.columns[1] = "ID"
    /\ \E n \in StandardNodes(last.pre) : n.unique_id = "1"


(***************************************************************************)
(* SpecConnections: add_connections over frames of at most                 *)
(* MaxConnectionRows rows with null, unresolvable and resolvable ids, with *)
(* present and absent node types and with requested property columns the   *)
(* frame has and does not have.  The graphs hold A nodes 1 and 2 and B     *)
(* node 1, only the A nodes, or nothing; a graph holds at most             *)
(* MaxRelations relations before a call.                                   *)
(***************************************************************************)
MaxConnectionRows == 2

ConnectionNodeFrame(ids) == DataFrame(<<"id">>, [k \in 1..Len(ids) |-> <<VInt(ids[k])>>])
ConnectionGraphA ==
    maintain_graph_add_nodes(EmptyGraph, DirCall(ConnectionNodeFrame(<<"1", "2">>), "A", "id", None, None)).g
ConnectionGraphAB ==
    maintain_graph_add_nodes(ConnectionGraphA, DirCall(ConnectionNodeFrame(<<"1">>), "B", "id", None, None)).g
ConnectionRowPool ==
    {<<VInt("1"), VInt("1"), VInt("7")>>, <<VInt("2"), VInt("1"), ValueNull>>,
     <<ValueNull, VInt("1"), VInt("7")>>, <<VInt("1"), ValueNull, VInt("7")>>,
     <<VInt("9"), VInt("1"), VInt("7")>>, <<VInt("1"), VInt("2"), VInt("8")>>}
RequestedColumns == {None, Some(<<"w", "m">>)}
RowConnectionCalls ==
    {ConnectionCall(DataFrame(<<"s", "t", "w">>, d), "R", st, "s", tt, "t", cols) :
        d \in SeqsUpTo(ConnectionRowPool, MaxConnectionRows), st \in {"A", "C"},
        tt \in {"B", "C"}, cols \in RequestedColumns}

InitConnections ==
    /\ build = "dirgraph"
    /\ graph \in {EmptyGraph, ConnectionGraphA, ConnectionGraphAB}
    /\ last = NoCall

AddConnections ==
    /\ build = "dirgraph"
    /\ last.op = NoCall.op
    /\ Len(graph.edges) < MaxRelations
    /\ \E c \in RowConnectionCalls : Call("add_connections", c, add_connections(graph, c))

NextConnections == AddConnections

SpecConnections == InitConnections /\ [][NextConnections]_vars

\* The cell of a row in a named column, null when the frame has no such
\* column or the cell is null.
CellOf(df, row, name) ==
    IF \E i \in 1..Len(df.columns) : df.columns[i] = name
    THEN row[CHOOSE i \in 1..Len(df.columns) : df.columns[i] = name]
    ELSE ValueNull
\* A regular node of the type with the id exists.
ResolvesTo(g, node_type, id) ==
    /\ id # ValueNull
    /\ \E i \in 1..Len(g.nodes) :
          IsRegular(g.nodes[i]) /\ g.nodes[i].node_type = node_type /\ g.nodes[i].id = id
TypePresent(g, node_type) ==
    \E i \in 1..Len(g.nodes) : IsRegular(g.nodes[i]) /\ g.nodes[i].node_type = node_type
\* The rows of the observed call that name an existing source and target.
LinkingRows(g, c) ==
    SelectSeq(c.df.rows, LAMBDA row :
        /\ ResolvesTo(g, c.source_type, CellOf(c.df, row, c.source_id_field))
        /\ ResolvesTo(g, c.target_type, CellOf(c.df, row, c.target_id_field)))
RequestedKeys(c) ==
    IF IsSome(c.columns) THEN {Unwrap(c.columns)[k] : k \in 1..Len(Unwrap(c.columns))} ELSE {}
ObservedConnections ==
    /\ last.op = "add_connections"
    /\ build = "dirgraph"
    /\ \E i \in 1..Len(last.args.df.columns) : last.args.df.columns[i] = last.args.source_id_field
    /\ \E i \in 1..Len(last.args.df.columns) : last.args.df.columns[i] = last.args.target_id_field
\* The relations the observed call added.
AddedEdges == SubSeq(graph.edges, Len(last.pre.edges) + 1, Len(graph.edges))

\* C25: add_connections creates exactly one relation, source to target, for
\* each row whose source and target ids are non-null and resolve to nodes of
\* the source and target types, in row order; every other row is skipped
\* without error; every created relation carries exactly the requested
\* property columns, a missing or null cell stored as null.
C25_OneRelationPerResolvedRow ==
    (/\ ObservedConnections
     /\ TypePresent(last.pre, last.args.source_type)
     /\ TypePresent(last.pre, last.args.target_type)) =>
        LET c == last.args
            rows == LinkingRows(last.pre, c)
        IN /\ last.res = "Ok"
           /\ SubSeq(graph.edges, 1, Len(last.pre.edges)) = last.pre.edges
           /\ Len(AddedEdges) = Len(rows)
           /\ \A k \in 1..Len(rows) :
                 LET e == AddedEdges[k]
                 IN /\ e.connection_type = c.connection_type
                    /\ IsRegular(graph.nodes[e.source])
                    /\ graph.nodes[e.source].node_type = c.source_type
                    /\ graph.nodes[e.source].id = CellOf(c.df, rows[k], c.source_id_field)
                    /\ IsRegular(graph.nodes[e.target])
                    /\ graph.nodes[e.target].node_type = c.target_type
                    /\ graph.nodes[e.target].id = CellOf(c.df, rows[k], c.target_id_field)
                    /\ DOMAIN e.properties = RequestedKeys(c)
                    /\ \A key \in RequestedKeys(c) : e.properties[key] = CellOf(c.df, rows[k], key)

\* A call of two rows, one linking A 2 to B 1 with a null cell and one with
\* an unresolvable source, requesting a column the frame has and one it
\* does not have, on a graph that already holds a relation.
C25_Witness ==
    /\ ObservedConnections
    /\ last.res = "Ok"
    /\ Len(last.pre.edges) = 1
    /\ last.args.columns = Some(<<"w", "m">>)
    /\ last.args.df.rows = <<<<VInt("9"), VInt("1"), VInt("7")>>, <<VInt("2"), VInt("1"), ValueNull>>>>
    /\ last.args.target_type = "B"
    /\ Len(AddedEdges) = 1

\* C26: add_connections with a source type or a target type that has no
\* node in the graph returns an error naming the absent side (the source
\* side when both are absent), and the graph is what it was: no relation
\* and no schema node is added.
C26_AbsentTypeRejected ==
    (/\ ObservedConnections
     /\ \/ ~TypePresent(last.pre, last.args.source_type)
        \/ ~TypePresent(last.pre, last.args.target_type)) =>
        /\ last.res = IF ~TypePresent(last.pre, last.args.source_type)
                      THEN "ErrSource" ELSE "ErrTarget"
        /\ graph = last.pre

\* A call whose rows name existing A nodes while the target type C has no
\* node, on a graph with A and B nodes.
C26_Witness ==
    /\ ObservedConnections
    /\ last.pre.nodes = ConnectionGraphAB.nodes
    /\ last.args.source_type = "A"
    /\ last.args.target_type = "C"
    /\ Len(last.args.df.rows) = 2
    /\ last.res = "ErrTarget"


(***************************************************************************)
(* SpecStore: the write-back operations over the graph of SpecEquation     *)
(* (schema node A at index 1, A nodes at 2 and 3): process_equation with   *)
(* and without a destination property, store_count_results,                *)
(* count_nodes_in_level, and update_node_properties on target lists of at  *)
(* most MaxTargets entries.  The selections include no level, empty        *)
(* levels, groups without a parent, a schema node among the children or as *)
(* a parent, and an index that denotes no node.                            *)
(***************************************************************************)
MaxTargets == 3

Group(parent, children) == [parent |-> parent, children |-> children]
StoreSelections ==
    {<<>>,
     <<<<>>>>,
     <<<<Group(None, <<>>)>>>>,
     <<<<Group(None, <<2, 3>>)>>>>,
     <<<<Group(None, <<2>>)>>, <<Group(Some(2), <<3>>), Group(Some(3), <<>>)>>>>,
     <<<<Group(None, <<2>>)>>, <<Group(Some(1), <<2>>)>>>>,
     <<<<Group(None, <<2, 1, 3>>)>>>>,
     <<<<Group(None, <<4, 3>>)>>>>,
     <<<<Group(None, <<4>>)>>>>}
StoreLevelIndices == {None, Some(0), Some(2)}
StoreExpressions == {"price + 1", "sum(price)", "sum(price", "nope + 1", "sum(nope)"}
\* The calls of process_equation: the expressions above with or without the
\* destination total, and expressions that read total.
StoreEquationCalls ==
    {[selection |-> sel, expression |-> e, level_index |-> li, store_as |-> st] :
        sel \in StoreSelections, e \in StoreExpressions, li \in StoreLevelIndices,
        st \in {None, Some("total")}}
    \cup {[selection |-> sel, expression |-> e, level_index |-> None, store_as |-> st] :
             sel \in StoreSelections, e \in {"total + 1", "sum(total)"},
             st \in {None, Some("again")}}
StoreCountCalls ==
    {[selection |-> sel, level_index |-> li, group_by_parent |-> gbp, target_property |-> "n"] :
        sel \in StoreSelections, li \in StoreLevelIndices, gbp \in BOOLEAN}
Targets == {<<idx, ValueInt64(7)>> : idx \in {None, Some(1), Some(2), Some(3), Some(4)}}
                \cup {<<Some(2), ValueInt64(8)>>}
TargetLists == SeqsUpTo(Targets, MaxTargets)

\* The calls that may precede the observed one: write-backs over the two A
\* nodes, over parent groups, and over a level that holds the schema node.
SetupSelections ==
    {<<<<Group(None, <<2, 3>>)>>>>,
     <<<<Group(None, <<2>>)>>, <<Group(Some(2), <<3>>), Group(Some(3), <<>>)>>>>,
     <<<<Group(None, <<2, 1, 3>>)>>>>}
IsSetup(c) ==
    /\ c.selection \in SetupSelections
    /\ c.level_index = None
    /\ "expression" \in DOMAIN c => c.expression \in {"price + 1", "sum(price)"} /\ IsSome(c.store_as)

InitStore ==
    /\ build = "dirgraph"
    /\ graph = EquationGraph
    /\ last = NoCall

\* One call: the observed one, or a preparatory call that is not recorded.
StoreCall(op, c, r, setup) ==
    /\ graph' = r.g
    /\ \E observed \in BOOLEAN :
          /\ observed \/ setup
          /\ last' = IF observed THEN [op |-> op, args |-> c, pre |-> graph, res |-> r.res]
                     ELSE last
    /\ UNCHANGED build

StoreEquation ==
    /\ build = "dirgraph"
    /\ last.op = NoCall.op
    /\ \E c \in StoreEquationCalls :
          StoreCall("process_equation", c,
                    process_equation(graph, c.selection, c.expression, c.level_index, c.store_as),
                    IsSetup(c))

StoreCountResults ==
    /\ build = "dirgraph"
    /\ last.op = NoCall.op
    /\ \E c \in StoreCountCalls :
          StoreCall("store_count_results", c,
                    store_count_results(graph, c.selection, c.level_index, c.group_by_parent,
                                        c.target_property),
                    IsSetup(c))

\* count_nodes_in_level reads the selection only; its result is the count or
\* the panic of .expect("Level should exist").
CountNodesInLevel ==
    /\ build = "dirgraph"
    /\ last.op = NoCall.op
    /\ \E sel \in StoreSelections, li \in StoreLevelIndices :
          LET count == count_nodes_in_level(sel, li)
          IN StoreCall("count_nodes_in_level", [selection |-> sel, level_index |-> li],
                       [g |-> graph,
                        res |-> IF IsSome(count) THEN IntToString(Unwrap(count)) ELSE "Panic"],
                       FALSE)

UpdateNodeProperties ==
    /\ build = "dirgraph"
    /\ last.op = NoCall.op
    /\ \E nodes \in TargetLists :
          StoreCall("update_node_properties", [nodes |-> nodes, property |-> "p"],
                    update_node_properties(graph, nodes, "p"), FALSE)

NextStore ==
    \/ StoreEquation
    \/ StoreCountResults
    \/ CountNodesInLevel
    \/ UpdateNodeProperties

SpecStore == InitStore /\ [][NextStore]_vars

\* Vocabulary of the write-back claims.  The texts that parse, the level a
\* call resolves to, and the conditions under which the spec has
\* process_equation fail before it evaluates anything.
StoreTexts == StoreExpressions \cup {"total + 1", "sum(total)"}
WellFormedTexts == {e \in StoreTexts : parse_expression(e).ok}
AggregateTexts == {e \in StoreTexts : \E name \in CalledNames(e) : SupportedName(name)}
LevelIndexOf(c) == IF IsSome(c.level_index) THEN Unwrap(c.level_index) ELSE Len(c.selection) - 1
LevelResolves(c) == LevelIndexOf(c) + 1 \in 1..Len(c.selection)
LevelNodes(c) == IF LevelResolves(c) THEN ChildrenOf(c.selection[LevelIndexOf(c) + 1]) ELSE <<>>
\* The first node of the level is a regular node whose type has a schema
\* node, and the text references a variable that schema does not have.
FailsSchemaValidation(g, c) ==
    /\ Len(LevelNodes(c)) > 0
    /\ LevelNodes(c)[1] \in RegularIndices(g)
    /\ SchemaHolders(g, g.nodes[LevelNodes(c)[1]].node_type) # {}
    /\ \E v \in VariablesOf(c.expression) :
          /\ v \notin {"id", "title", "type"}
          /\ \A i \in SchemaHolders(g, g.nodes[LevelNodes(c)[1]].node_type) :
                v \notin DOMAIN NodeProps(g.nodes[i])
FailsBeforeEvaluation(g, c) ==
    \/ c.expression \notin WellFormedTexts
    \/ Len(c.selection) = 0
    \/ IsSome(c.level_index) /\ ~LevelResolves(c)
    \/ LevelResolves(c) /\ Len(LevelNodes(c)) = 0
    \/ FailsSchemaValidation(g, c)

\* C21: process_equation returns an error and leaves the graph as it was,
\* with or without a destination property, whenever the expression does not
\* parse, the selection has no level, the explicit level index is out of
\* range, the effective level has no node, or a referenced variable fails
\* the schema validation.
C21_EarlyErrorsLeaveGraph ==
    (ObservedEquation /\ FailsBeforeEvaluation(last.pre, last.args)) =>
        /\ last.res.status = "Err"
        /\ graph = last.pre

\* A call with a destination property, over the two A nodes after an
\* earlier write-back, whose expression reads a property the schema lacks.
C21_Witness ==
    /\ ObservedEquation
    /\ last.args.store_as = Some("total")
    /\ last.args.expression = "nope + 1"
    /\ LevelNodes(last.args) = <<2, 3>>
    /\ "total" \in DOMAIN last.pre.nodes[2].properties
    /\ FailsSchemaValidation(last.pre, last.args)

\* The parsed form of the texts that parse, and the results a call's
\* evaluation gives on the graph it was made on.
StoreParsed == [e \in WellFormedTexts |-> parse_expression(e).expr]
ResultsOf(g, c) == evaluate_equation(g, c.selection, StoreParsed[c.expression], c.level_index)
\* The values the results hold for node i: of the groups whose parent i is
\* for an aggregate, of i as a node of the level otherwise.
ResultValues(g, c, i) ==
    LET results == ResultsOf(g, c)
    IN IF c.expression \in AggregateTexts
       THEN {results[k].value : k \in {j \in 1..Len(results) : results[j].parent_idx = Some(i)}}
       ELSE {results[k].value : k \in {j \in 1..Len(results) : results[j].node_idx = Some(i)}}
\* Node n is node m with property key set to value and nothing else touched.
SetOn(m, key, value, n) ==
    /\ n = [m EXCEPT !.properties = n.properties]
    /\ DOMAIN n.properties = DOMAIN m.properties \cup {key}
    /\ n.properties[key] = value
    /\ \A k \in DOMAIN m.properties \ {key} : n.properties[k] = m.properties[k]
ObservedStored ==
    /\ ObservedEquation
    /\ IsSome(last.args.store_as)
    /\ last.res.status = "Stored"

\* C22: when process_equation with destination property P succeeds, an
\* aggregate expression sets P on the parent node of each group to that
\* group's result, any other expression sets P on each node of the effective
\* level to that node's result, and no other node and no other property of a
\* target node is changed.
C22_WriteBackTargets ==
    ObservedStored =>
        /\ graph = [last.pre EXCEPT !.nodes = graph.nodes]
        /\ Len(graph.nodes) = Len(last.pre.nodes)
        /\ \A i \in 1..Len(last.pre.nodes) :
              LET values == ResultValues(last.pre, last.args, i)
              IN IF values = {} THEN graph.nodes[i] = last.pre.nodes[i]
                 ELSE \E v \in values :
                         SetOn(last.pre.nodes[i], Unwrap(last.args.store_as), v, graph.nodes[i])

\* An aggregate written to the parents 2 and 3 of two groups, the second of
\* them empty, and a per-node expression written to the nodes 2 and 3.
C22_Witness ==
    /\ ObservedStored
    /\ \/ /\ last.args.expression = "sum(price)"
          /\ LevelNodes(last.args) = <<3>>
          /\ graph.nodes[2].properties["total"] = Value("Int64", "4")
          /\ graph.nodes[3].properties["total"] = ValueNull
       \/ /\ last.args.expression = "price + 1"
          /\ LevelNodes(last.args) = <<2, 3>>
          /\ graph.nodes[2].properties["total"] = Value("Int64", "3")
          /\ graph.nodes[3].properties["total"] = Value("Int64", "5")

\* The groups of the level a call resolves to, and the absence of any node
\* to write to: no group has a parent that is a node of the graph when the
\* write goes to parents, the level exists and none of its entries is a node
\* of the graph when it goes to the level's nodes.
LevelGroups(c) == IF LevelResolves(c) THEN c.selection[LevelIndexOf(c) + 1] ELSE <<>>
NoValidTargets(g, c, to_parents) ==
    IF to_parents
    THEN \A k \in 1..Len(LevelGroups(c)) :
            ~(IsSome(LevelGroups(c)[k].parent) /\ NodeExists(g, Unwrap(LevelGroups(c)[k].parent)))
    ELSE /\ LevelResolves(c)
         /\ \A k \in 1..Len(LevelNodes(c)) : ~NodeExists(g, LevelNodes(c)[k])
ObservedStoreCount == last.op = "store_count_results"

\* C23: when the write-back finds no valid target node, as for an aggregate
\* over a level whose groups have no parent, process_equation with a
\* destination property and store_count_results return an error and change
\* nothing.
C23_NoTargetsIsError ==
    /\ (ObservedEquation /\ IsSome(last.args.store_as)
           /\ NoValidTargets(last.pre, last.args, last.args.expression \in AggregateTexts)) =>
          (last.res.status = "Err" /\ graph = last.pre)
    /\ (ObservedStoreCount
           /\ NoValidTargets(last.pre, last.args, last.args.group_by_parent)) =>
          (last.res = "Err" /\ graph = last.pre)

\* sum(price) with destination total over the two A nodes in one group
\* without a parent.
C23_Witness ==
    /\ ObservedEquation
    /\ last.args.expression = "sum(price)"
    /\ last.args.store_as = Some("total")
    /\ last.args.selection = <<<<Group(None, <<2, 3>>)>>>>
    /\ last.res = Err("No valid nodes found to store 'total'. Selection level: 0, Aggregation: true")
    /\ graph = last.pre

\* The node indices a call hands to the property update: the listed ones
\* for update_node_properties, the parents of the level's groups or the
\* level's nodes for the write-backs.
ObservedUpdate == last.op = "update_node_properties"
ListedIndices(nodes) == {Unwrap(nodes[k][1]) : k \in {j \in 1..Len(nodes) : IsSome(nodes[j][1])}}
LevelIndices(c) == {LevelNodes(c)[k] : k \in 1..Len(LevelNodes(c))}
GroupParents(c) ==
    {Unwrap(LevelGroups(c)[k].parent) : k \in {j \in 1..Len(LevelGroups(c)) : IsSome(LevelGroups(c)[j].parent)}}
WriteTargets ==
    IF ObservedUpdate THEN ListedIndices(last.args.nodes)
    ELSE IF ObservedEquation /\ IsSome(last.args.store_as)
         THEN IF last.args.expression \in AggregateTexts THEN GroupParents(last.args)
              ELSE LevelIndices(last.args)
    ELSE IF ObservedStoreCount
         THEN IF last.args.group_by_parent THEN GroupParents(last.args)
              ELSE LevelIndices(last.args)
    ELSE {}
SchemaIndices(g) == {i \in 1..Len(g.nodes) : IsSchema(g.nodes[i])}
WriteRejected == IF ObservedEquation THEN last.res.status = "Err" ELSE last.res = "Err"

\* C24: a write through the property update whose targets include a schema
\* node is rejected with an error, and in no sequence of calculation and
\* count write-backs is the property mapping of a schema node modified.
C24_SchemaNodesNotWritten ==
    /\ (WriteTargets \cap SchemaIndices(last.pre) # {}) => WriteRejected
    /\ \A i \in SchemaIndices(EquationGraph) :
          /\ i \in SchemaIndices(graph)
          /\ graph.nodes[i].properties = EquationGraph.nodes[i].properties

\* A per-node write-back over a level that holds the schema node of A, made
\* after an earlier write-back, is refused.
C24_Witness ==
    /\ ObservedEquation
    /\ last.args.expression = "price + 1"
    /\ last.args.store_as = Some("total")
    /\ LevelNodes(last.args) = <<2, 1, 3>>
    /\ "total" \in DOMAIN last.pre.nodes[3].properties
    /\ last.res = Err("Cannot update properties on schema nodes")
    /\ graph.nodes[1] = EquationGraph.nodes[1]

\* A counting call whose level index denotes no level of its selection.
ObservedCountInLevel == last.op = "count_nodes_in_level"
ObservedFlatCount == ObservedCountInLevel \/ (ObservedStoreCount /\ ~last.args.group_by_parent)
InvalidLevel(c) == ~LevelResolves(c)

\* C27: the counting operations take the explicit level index if given and
\* the last level otherwise, and report a level index that denotes no level
\* (out of range, or any index on a selection without levels) as an error
\* value: count_nodes_in_level and store_count_results with
\* group_by_parent = false do not crash on it, and the graph is unchanged.
C27_InvalidLevelIsError ==
    (ObservedFlatCount /\ InvalidLevel(last.args)) =>
        /\ last.res = "Err"
        /\ graph = last.pre

\* store_count_results with group_by_parent = false and level index 2 on a
\* selection of one level ends in the panic of count_nodes_in_level.
C27_FailingCall ==
    /\ ObservedStoreCount
    /\ ~last.args.group_by_parent
    /\ last.args.selection = <<<<Group(None, <<2, 3>>)>>>>
    /\ last.args.level_index = Some(2)
    /\ last.res = "Panic"

\* The variables of each text, and the properties that write-backs have
\* added to the regular nodes of a type.
StoreVariables == [e \in StoreTexts |-> VariablesOf(e)]
WrittenBack(g, node_type) ==
    UNION {DOMAIN g.nodes[i].properties \ DOMAIN EquationGraph.nodes[i].properties :
              i \in {j \in RegularIndices(g) : g.nodes[j].node_type = node_type}}
\* The observed call reads a written-back property over a level whose first
\* node is a regular node.
ReadsWrittenBack ==
    /\ ObservedEquation
    /\ last.args.expression \in WellFormedTexts
    /\ Len(LevelNodes(last.args)) > 0
    /\ LevelNodes(last.args)[1] \in RegularIndices(last.pre)
    /\ StoreVariables[last.args.expression]
          \cap WrittenBack(last.pre, last.pre.nodes[LevelNodes(last.args)[1]].node_type) # {}

\* C28: a write-back does not enter the stored property in the schema.
\* After process_equation has stored results under a new property P on
\* regular nodes of type T, the schema node of T still lacks P, and a
\* following process_equation whose expression references P is rejected by
\* the schema guard as a property that does not exist on T nodes.
C28_WrittenPropertyNotInSchema ==
    /\ \A i \in RegularIndices(graph) :
          \A h \in SchemaHolders(graph, graph.nodes[i].node_type) :
             WrittenBack(graph, graph.nodes[i].node_type) \cap DOMAIN graph.nodes[h].properties = {}
    /\ ReadsWrittenBack =>
          LET node_type == last.pre.nodes[LevelNodes(last.args)[1]].node_type
          IN /\ last.res.status = "Err"
             /\ \E P \in StoreVariables[last.args.expression] \cap WrittenBack(last.pre, node_type) :
                   StartsWith(last.res.msg,
                              "Property '" \o P \o "' does not exist on '" \o node_type \o "' nodes.")
             /\ graph = last.pre

\* total was stored on the two A nodes; total + 1 over the same two nodes
\* is then refused.
C28_Witness ==
    /\ ReadsWrittenBack
    /\ last.args.expression = "total + 1"
    /\ last.args.selection = <<<<Group(None, <<2, 3>>)>>>>
    /\ last.pre.nodes[2].properties["total"] = Value("Int64", "3")
    /\ last.pre.nodes[3].properties["total"] = Value("Int64", "5")
    /\ StartsWith(last.res.msg, "Property 'total' does not exist on 'A' nodes.")

\* The target list and the property of an observed update: the arguments of
\* update_node_properties, or what store_count_results without grouping
\* hands to it, the level's nodes each with the level's count.
HandedToUpdate == ObservedUpdate \/ (ObservedStoreCount /\ ~last.args.group_by_parent /\ LevelResolves(last.args))
UpdateList ==
    IF ObservedUpdate THEN last.args.nodes
    ELSE LET nodes == SelectSeq(FirstOccurrences(LevelNodes(last.args)),
                                LAMBDA node_idx : NodeExists(last.pre, node_idx))
         IN [k \in 1..Len(nodes) |-> <<Some(nodes[k]), ValueInt64(Len(FirstOccurrences(LevelNodes(last.args))))>>]
UpdateProperty == IF ObservedUpdate THEN last.args.property ELSE last.args.target_property
\* The positions of the list that denote a schema node of the graph.
SchemaPositions(g, nodes) ==
    {k \in 1..Len(nodes) : IsSome(nodes[k][1]) /\ Unwrap(nodes[k][1]) \in SchemaIndices(g)}
Least(S) == CHOOSE k \in S : \A j \in S : k <= j
Greatest(S) == CHOOSE k \in S : \A j \in S : j <= k
MeetsSchemaNode == HandedToUpdate /\ SchemaPositions(last.pre, UpdateList) # {}

\* C29: the property update is not all-or-nothing.  When it meets a schema
\* node in its target list it returns the error at once, the regular nodes
\* listed before the schema node carry the new value, and every other node,
\* the ones listed after it included, is as it was.
C29_PartialUpdate ==
    MeetsSchemaNode =>
        LET stop == Least(SchemaPositions(last.pre, UpdateList))
            Before(i) == {k \in 1..(stop - 1) : UpdateList[k][1] = Some(i)}
        IN /\ last.res = "Err"
           /\ graph = [last.pre EXCEPT !.nodes = graph.nodes]
           /\ Len(graph.nodes) = Len(last.pre.nodes)
           /\ \A i \in 1..Len(last.pre.nodes) :
                 IF Before(i) # {}
                 THEN SetOn(last.pre.nodes[i], UpdateProperty,
                            UpdateList[Greatest(Before(i))][2], graph.nodes[i])
                 ELSE graph.nodes[i] = last.pre.nodes[i]

\* Node 2, the schema node, node 3: node 2 is written, node 3 is not.
C29_Witness ==
    /\ ObservedUpdate
    /\ last.args.nodes = <<<<Some(2), ValueInt64(7)>>, <<Some(1), ValueInt64(7)>>, <<Some(3), ValueInt64(7)>>>>
    /\ last.res = "Err"
    /\ graph.nodes[2].properties["p"] = ValueInt64(7)
    /\ "p" \notin DOMAIN graph.nodes[3].properties

====
